---- MODULE Spec2Model ----
(***************************************************************************)
(* The tree-construction engine of tree-cli: buildTree with its per-       *)
(* directory ignore-rule stack, and the filesystem it observes.            *)
(*                                                                         *)
(* A path is a sequence of names; the scan root is Root.  A pattern of an  *)
(* ignore declaration is a sequence of tokens: names, "/" and a leading    *)
(* "!".  A TreeNode is a record with the fields the code sets and no       *)
(* others, so "no children field" is "children" \notin DOMAIN node.        *)
(***************************************************************************)
EXTENDS Integers, Sequences, FiniteSets, TLC

VARIABLES
    fs,         \* the filesystem: path -> kind of the entry at that path
    sizes,      \* path -> byte length of the content of the regular file there
    gitignore,  \* directory path -> its .gitignore file, or NoFile
    options,    \* the TreeOptions given to the top-level call
    heap,       \* the ignoreStack arrays: reference -> sequence of levels
    calls,      \* the chain of buildTree calls in progress, innermost last
    result,     \* <<the node the top-level call resolved with>>, or Pending
    scanned,    \* history: every candidate the scan loops have classified
    summary,    \* <<the TreeSummary made of the result>>, or NoSummary
    touched,    \* history: every filesystem operation made, as <<operation, path>>
    creator,    \* the issue creator run: "token", "device" or "jwt"
    env,        \* the environment variables the constructors read
    keychain,   \* the OS keychain of the creator's service: account -> password
    expired,    \* GitHub rejects the token that is in the keychain
    run,        \* the process of the current command: its place and locals
    trace,      \* history: prompts, keychain writes and requests of the run
    commands    \* history: the commands run so far

treeVars == <<fs, sizes, gitignore, options, heap, calls, result, scanned, summary, touched>>
issueVars == <<creator, env, keychain, expired, run, trace, commands>>
vars == <<fs, sizes, gitignore, options, heap, calls, result, scanned, summary, touched,
          creator, env, keychain, expired, run, trace, commands>>

----------------------------------------------------------------------------
(* Bounds of the model. *)

\* at most this many entries exist below the scan root (.gitignore files aside)
MaxEntries == 3
\* options.maxLeaf ranges over 0 (unset) .. MaxLeafBound
MaxLeafBound == 1

----------------------------------------------------------------------------
(* Names and strings. *)

\* the content of a .gitignore file: its pattern lines, or no file to read
NoFile == [exists |-> FALSE, readable |-> FALSE, lines |-> <<>>]
File(lines) == [exists |-> TRUE, readable |-> TRUE, lines |-> lines]
\* a .gitignore that is listed by its directory but on which readFile throws
Unreadable(lines) == [exists |-> TRUE, readable |-> FALSE, lines |-> lines]

\* result is the empty sequence until the top-level call has returned
Pending == <<>>
\* summary is the empty sequence until getSummary has been called
NoSummary == <<>>

GitignoreName == ".gitignore"
DotGit == ".git"

\* UTF-16 code units of the names the model uses.  A name with a character
\* outside ASCII is written with the code point of that character: U+00E9
\* is the letter e with acute accent, U+0301 the combining acute accent.
CodePoints(n) ==
    CASE n = "repo" -> <<114, 101, 112, 111>>
      [] n = "sub" -> <<115, 117, 98>>
      [] n = "SUB" -> <<83, 85, 66>>
      [] n = ".GIT" -> <<46, 71, 73, 84>>
      [] n = "..." -> <<46, 46, 46>>
      [] n = "U+00E9" -> <<233>>
      [] n = "eU+0301" -> <<101, 769>>
      [] n = "other" -> <<111, 116, 104, 101, 114>>
      [] n = "name" -> <<110, 97, 109, 101>>
      [] n = "coverage" -> <<99, 111, 118, 101, 114, 97, 103, 101>>
      [] n = "coverage_file" -> <<99, 111, 118, 101, 114, 97, 103, 101, 95, 102, 105, 108, 101>>
      [] n = "B" -> <<66>>
      [] n = "a" -> <<97>>
      [] n = "link" -> <<108, 105, 110, 107>>
      [] n = ".git" -> <<46, 103, 105, 116>>
      [] n = ".gitignore" -> <<46, 103, 105, 116, 105, 103, 110, 111, 114, 101>>
      [] n = "!" -> <<33>>
      [] n = "/" -> <<47>>

IsUpper(c) == c >= 65 /\ c <= 90
IsLetter(c) == IsUpper(c) \/ (c >= 97 /\ c <= 122)
ToLower(c) == IF IsUpper(c) THEN c + 32 ELSE c

\* -1, 0 or 1: comparison of two code-unit sequences, unit by unit
RECURSIVE CompareUnits(_, _, _)
CompareUnits(s, t, i) ==
    IF i > Len(s) \/ i > Len(t)
    THEN IF Len(s) = Len(t) THEN 0 ELSE IF Len(s) < Len(t) THEN -1 ELSE 1
    ELSE IF s[i] < t[i] THEN -1
    ELSE IF s[i] > t[i] THEN 1
    ELSE CompareUnits(s, t, i + 1)

\* the order of name < name in JavaScript: by UTF-16 code unit
CodePointCompare(a, b) == CompareUnits(CodePoints(a), CodePoints(b), 1)

\* The printable ASCII characters that are not letters, in the order of the
\* root collation: the space, the punctuation marks and symbols
\* _ - , ; : ! ? . ' " ( ) [ ] { } @ * / \ & # % ` ^ + < = > | ~ $
\* and then the digits.
CollationOrder ==
    <<32, 95, 45, 44, 59, 58, 33, 63, 46, 39, 34, 40, 41, 91, 93, 123, 125,
      64, 42, 47, 92, 38, 35, 37, 96, 94, 43, 60, 61, 62, 124, 126, 36,
      48, 49, 50, 51, 52, 53, 54, 55, 56, 57>>

\* The canonical decomposition of a string: a letter with an accent becomes
\* the letter and the combining accent (U+00E9 becomes e and U+0301, the
\* code units 101 and 769).  Strings with the same decomposition are
\* canonically equivalent.
RECURSIVE Decompose(_)
Decompose(s) ==
    IF s = <<>> THEN <<>>
    ELSE (IF Head(s) = 233 THEN <<101, 769>> ELSE <<Head(s)>>) \o Decompose(Tail(s))

\* Primary collation weight of a character: the characters that are not
\* letters come before the letters, in the order above, a letter has the
\* weight of its lower-case form and a combining accent has none (0).
PrimaryWeight(c) ==
    IF c = 769 THEN 0
    ELSE IF IsLetter(c) THEN 1000 + ToLower(c)
    ELSE CHOOSE n \in 1..Len(CollationOrder) : CollationOrder[n] = c

\* String.prototype.localeCompare on the model's names: the decomposed
\* strings are compared by primary weights first, the characters without
\* one left out; accents (secondary weights) decide only between strings
\* whose primary weights are all equal, and case (tertiary weights: lower
\* case before upper case) only between strings that have the same accents
\* too.  Canonically equivalent strings compare equal (0).
LocaleCompare(a, b) ==
    LET s == Decompose(CodePoints(a))
        t == Decompose(CodePoints(b))
        Primary(u) == SelectSeq([i \in 1..Len(u) |-> PrimaryWeight(u[i])],
                                LAMBDA w : w # 0)
        Secondary(u) == [i \in 1..Len(u) |-> IF u[i] = 769 THEN 1 ELSE 0]
        Tertiary(u) == [i \in 1..Len(u) |-> IF IsUpper(u[i]) THEN 1 ELSE 0]
        p == CompareUnits(Primary(s), Primary(t), 1)
        q == CompareUnits(Secondary(s), Secondary(t), 1)
    IN  IF p # 0 THEN p
        ELSE IF q # 0 THEN q
        ELSE CompareUnits(Tertiary(s), Tertiary(t), 1)

\* the case folding of the matcher's regular expressions (flag i)
FoldCase(n) == [i \in 1..Len(CodePoints(n)) |-> ToLower(CodePoints(n)[i])]

----------------------------------------------------------------------------
(* Paths. *)

Root == <<"repo">>

\* path.basename
Basename(p) == p[Len(p)]
\* path.join(dir, item)
Join(dir, item) == Append(dir, item)
\* the directory part of a path
Dirname(p) == SubSeq(p, 1, Len(p) - 1)
\* faulty variant: the path is tested by its base name alone, whatever the base
RelativeToParent(base, p) == <<p[Len(p)]>>

\* path.relative(base, p) for p below base: the segments after base
Relative(base, p) == SubSeq(p, Len(base) + 1, Len(p))

----------------------------------------------------------------------------
(* The matcher of one level: the npm package "ignore" on the patterns the  *)
(* model uses (names, a leading "!", "/" separators; no wildcards).        *)

\* A rule of a matcher, made from one pattern line.  A pattern is anchored
\* to the declaring directory when it has a "/" at its beginning or middle;
\* a trailing "/" makes it match directories only.
MakeRule(pattern) ==
    LET negative == pattern[1] = "!"
        body == IF negative THEN Tail(pattern) ELSE pattern
    IN  [negative |-> negative,
         dirOnly  |-> body[Len(body)] = "/",
         anchored |-> \E i \in 1..(Len(body) - 1) : body[i] = "/",
         segs     |-> SelectSeq(body, LAMBDA t : t # "/")]

\* ignore().add(lines): the rules of the lines, appended in order
AddPatterns(ignorer, lines) ==
    ignorer \o [i \in 1..Len(lines) |-> MakeRule(lines[i])]

\* A tested path is its segments and whether it ends in "/".
FilePath(segs) == [segs |-> segs, slash |-> FALSE]
DirPath(segs) == [segs |-> segs, slash |-> TRUE]

SameSegs(s, t) ==
    /\ Len(s) = Len(t)
    /\ \A i \in 1..Len(s) : FoldCase(s[i]) = FoldCase(t[i])

\* rule.regex.test(path): an anchored rule matches the whole path, any other
\* rule the last segments of it; a directory-only rule needs the final "/".
RuleMatches(rule, path) ==
    LET n == Len(rule.segs)
        m == Len(path.segs)
    IN  /\ rule.dirOnly => path.slash
        /\ IF rule.anchored
           THEN SameSegs(rule.segs, path.segs)
           ELSE m >= n /\ SameSegs(rule.segs, SubSeq(path.segs, m - n + 1, m))

\* _testOne: the rules in order, the last rule that matches decides
RECURSIVE TestRules(_, _, _, _)
TestRules(rules, path, i, acc) ==
    IF i > Len(rules) THEN acc
    ELSE LET rule == rules[i]
             skip == \/ (acc.unignored = rule.negative /\ acc.ignored # acc.unignored)
                     \/ (rule.negative /\ ~acc.ignored /\ ~acc.unignored)
         IN  IF ~skip /\ RuleMatches(rule, path)
             THEN TestRules(rules, path, i + 1,
                            [ignored |-> ~rule.negative, unignored |-> rule.negative])
             ELSE TestRules(rules, path, i + 1, acc)

TestOne(rules, path) ==
    TestRules(rules, path, 1, [ignored |-> FALSE, unignored |-> FALSE])

\* _t: a path below an ignored directory is ignored; only otherwise are the
\* rules tested on the path itself
RECURSIVE TestPath(_, _)
TestPath(rules, path) ==
    IF Len(path.segs) <= 1 THEN TestOne(rules, path)
    ELSE LET parent == TestPath(rules, DirPath(Dirname(path.segs)))
         IN  IF parent.ignored THEN parent ELSE TestOne(rules, path)

\* a name made of dots alone
DotOnly(n) == \A i \in 1..Len(CodePoints(n)) : CodePoints(n)[i] = 46

NoError == ""

\* checkPath: the error ignores throws for a path it does not take, NoError
\* for any other.  An empty path is a TypeError; a path that is made of dots
\* alone ("..."), or begins with dots and a "/" ("../x", ".../"), is not
\* taken as relative and is a RangeError.
CheckPath(path) ==
    IF path.segs = <<>> THEN "TypeError"
    ELSE IF DotOnly(path.segs[1]) THEN "RangeError"
    ELSE NoError

\* ignorer.ignores(path): the error thrown, or the result returned
Ignores(ignorer, path) ==
    LET error == CheckPath(path)
    IN  [error |-> error,
         ignored |-> error = NoError /\ TestPath(ignorer, path).ignored]

----------------------------------------------------------------------------
(* The filesystems the scan is run on. *)

\* What lstat and readdir find at a path:
\*   "none"    nothing there          "file"   a regular file
\*   "dir"     a directory            "link"   a symbolic link
\*   "err"     listed by its parent, but lstat on it throws
\*   "nolist"  a directory on which readdir throws
\*   "fleeting" a directory when its parent is scanned, gone (lstat throws)
\*              when it is visited itself
Kinds == {"file", "dir", "link", "err", "nolist", "fleeting"}

\* The entries a filesystem may have below the scan root, each with the
\* kinds it may be of.
Universe ==
    { <<<<"sub">>, {"dir"}>>,
      <<<<"other">>, {"dir", "nolist"}>>,
      <<<<"name">>, {"file", "dir"}>>,
      <<<<"coverage">>, {"file", "dir"}>>,
      <<<<"coverage_file">>, {"file"}>>,
      <<<<"B">>, {"file"}>>,
      <<<<"a">>, {"file"}>>,
      <<<<"link">>, {"link", "err"}>>,
      <<<<"sub", "name">>, {"file", "dir"}>>,
      <<<<"sub", "other">>, {"dir"}>>,
      <<<<"other", "name">>, {"file"}>> }

\* The entries of the filesystems on which operations fail: a repository
\* directory .git, a directory that cannot be listed or is gone when
\* visited, an entry that cannot be stat-ed.
FaultUniverse ==
    { <<<<".git">>, {"dir"}>>,
      <<<<".git", "name">>, {"file"}>>,
      <<<<"sub">>, {"dir", "nolist", "fleeting"}>>,
      <<<<"sub", "name">>, {"file"}>>,
      <<<<"sub", "other">>, {"dir", "fleeting"}>>,
      <<<<"other">>, {"dir", "nolist"}>>,
      <<<<"link">>, {"link", "err"}>>,
      <<<<"a">>, {"file"}>>,
      <<<<"B">>, {"file"}>> }

\* The entries of the filesystems with names that the matcher or the sort
\* takes in a way of its own: names that differ in letter case only (sub and
\* SUB, .GIT), a name made of dots, two names that are canonically
\* equivalent (the letter e with acute accent, written as one character and
\* as two), and a path three levels below the root.
NameUniverse ==
    { <<<<"sub">>, {"dir"}>>,
      <<<<"SUB">>, {"dir"}>>,
      <<<<"other">>, {"dir", "nolist"}>>,
      <<<<"name">>, {"file"}>>,
      <<<<".GIT">>, {"dir", "file"}>>,
      <<<<"...">>, {"file", "dir"}>>,
      <<<<"U+00E9">>, {"file"}>>,
      <<<<"eU+0301">>, {"file"}>>,
      <<<<"link">>, {"link", "err"}>>,
      <<<<"sub", "name">>, {"file", "dir"}>>,
      <<<<"sub", "...">>, {"file"}>>,
      <<<<"SUB", "name">>, {"file"}>>,
      <<<<"other", "name">>, {"file"}>>,
      <<<<"other", "sub">>, {"dir", "fleeting"}>>,
      <<<<"other", "sub", "name">>, {"file"}>> }

\* the paths of the filesystem of the run: the scan root and the paths that
\* an entry may be at
AllPaths == DOMAIN fs

\* The filesystems with the entries and kinds of a universe: a directory
\* root with at most MaxEntries entries below it, every entry inside a
\* directory; or a root that is no readable directory (its first lstat is
\* the visit's, so it is not fleeting).
FileSystems(universe) ==
    LET Closed(S) == \A p \in S : Dirname(p) = Root \/ Dirname(p) \in S
        Candidates == {Root \o u[1] : u \in universe}
        Shapes == {S \in SUBSET Candidates : Cardinality(S) <= MaxEntries /\ Closed(S)}
        Total(S, f, r) == [p \in {Root} \cup Candidates |->
                              IF p = Root THEN r
                              ELSE IF p \in S THEN f[p] ELSE "none"]
        KindsAt(p) == (CHOOSE u \in universe : Root \o u[1] = p)[2]
        Trees(S) == {f \in [S -> Kinds] :
                        \A p \in S : /\ f[p] \in KindsAt(p)
                                     /\ Dirname(p) # Root => f[Dirname(p)] = "dir"}
    IN  UNION {{Total(S, f, "dir") : f \in Trees(S)} : S \in Shapes}
        \cup {Total({}, <<>>, r) : r \in Kinds \ {"dir", "fleeting"}}

\* The contents of the regular files of filesystem f, by their byte
\* lengths: a regular file is empty or has content of 7 bytes.  With even,
\* the regular files of the filesystem are all of one length.
FileSizes(f, even) ==
    LET files == {p \in DOMAIN f : f[p] = "file"}
    IN  {[p \in DOMAIN f |-> IF p \in files THEN g[p] ELSE 0] :
         g \in {h \in [files -> {0, 7}] :
                   even => \A p, q \in files : h[p] = h[q]}}

Pattern(n) == <<n>>
DirOnlyPattern(n) == <<n, "/">>
Negation(n) == <<"!", n>>
PathPattern(d, n) == <<d, "/", n>>

\* the .gitignore files a directory may have
Declarations(dir) ==
    CASE dir = Root ->
            {NoFile, File(<<PathPattern("sub", "name")>>), File(<<Pattern("name")>>),
             File(<<DirOnlyPattern("coverage")>>)}
      [] dir = Root \o <<"sub">> ->
            {NoFile, File(<<Negation("name")>>), File(<<DirOnlyPattern("name")>>)}
      [] dir = Root \o <<"other">> -> {NoFile, File(<<Pattern("name")>>)}
      [] OTHER -> {NoFile}

\* the directories that may declare ignore rules
SubDir == Root \o <<"sub">>
OtherDir == Root \o <<"other">>
DeepDir == Root \o <<"sub", "other">>

GitignoreFiles(f) ==
    LET Of(d) == IF f[d] = "dir" THEN Declarations(d) ELSE {NoFile}
    IN  {[p \in DOMAIN f |->
            IF p = Root THEN r
            ELSE IF p = SubDir THEN s
            ELSE IF p = OtherDir THEN o
            ELSE IF p = DeepDir THEN d
            ELSE NoFile] :
         r \in Of(Root), s \in Of(SubDir), o \in Of(OtherDir), d \in Of(DeepDir)}

\* the .gitignore files of the filesystems on which operations fail: absent,
\* readable, or listed but not readable
FaultDeclarations(dir) ==
    CASE dir = Root -> {NoFile, Unreadable(<<Pattern("a")>>)}
      [] dir = SubDir ->
            {NoFile, File(<<Pattern("name")>>), Unreadable(<<Pattern("name")>>)}
      [] OTHER -> {NoFile}

FaultGitignoreFiles(f) ==
    LET Of(d) == IF f[d] = "dir" THEN FaultDeclarations(d) ELSE {NoFile}
    IN  {[p \in DOMAIN f |->
            IF p = Root THEN r ELSE IF p = SubDir THEN s ELSE NoFile] :
         r \in Of(Root), s \in Of(SubDir)}

\* The options of the top-level call.  maxLeaf 0 stands for a maxLeaf that
\* is not set; ignorePatterns <<>> for ignorePatterns that are not set.
OptionValues ==
    {[maxLeaf |-> n, ignorePatterns |-> <<>>] : n \in 0..MaxLeafBound}
    \cup {[maxLeaf |-> 0, ignorePatterns |-> ip] : ip \in {<<>>, <<Pattern("a")>>}}

\* The number NaN.  The numbers of the model are integers; NaN is the one
\* integer that stands for it, and no argument of the model parses to it.
NaN == -1000

\* the characters of "--summary", "-s", "--maxLeaf" and "-m"
SummaryFlag == <<"-", "-", "s", "u", "m", "m", "a", "r", "y">>
SummaryShort == <<"-", "s">>
MaxLeafFlag == <<"-", "-", "m", "a", "x", "L", "e", "a", "f">>
MaxLeafShort == <<"-", "m">>

\* String.prototype.startsWith, includes
StartsWith(str, prefix) ==
    Len(str) >= Len(prefix) /\ SubSeq(str, 1, Len(prefix)) = prefix
Includes(str, char) == \E n \in 1..Len(str) : str[n] = char

\* the characters of str before the first char
RECURSIVE Before(_, _)
Before(str, char) ==
    IF str = <<>> \/ Head(str) = char THEN <<>>
    ELSE <<Head(str)>> \o Before(Tail(str), char)

\* str.split(char)[1]: what stands between the first char and the second;
\* str has a char
SecondPart(str, char) ==
    Before(SubSeq(str, Len(Before(str, char)) + 2, Len(str)), char)

DecimalDigits == <<"0", "1", "2", "3", "4", "5", "6", "7", "8", "9">>

\* The characters parseInt skips at the beginning of its string: WhiteSpace
\* (tab, vertical tab, form feed, space, no-break space, byte order mark and
\* the other space separators) and LineTerminator (line feed, carriage
\* return, line and paragraph separator).  A character outside ASCII is
\* written by its code point.
WhiteSpace ==
    {"\t", "U+000B", "\f", " ", "U+00A0", "U+FEFF", "U+1680", "U+2000",
     "U+2001", "U+2002", "U+2003", "U+2004", "U+2005", "U+2006", "U+2007",
     "U+2008", "U+2009", "U+200A", "U+202F", "U+205F", "U+3000",
     "\n", "\r", "U+2028", "U+2029"}

RECURSIVE TrimStart(_)
TrimStart(str) ==
    IF str # <<>> /\ Head(str) \in WhiteSpace THEN TrimStart(Tail(str)) ELSE str

\* the longest prefix of str made of digits
RECURSIVE DigitsOf(_)
DigitsOf(str) ==
    IF str = <<>> \/ (\A d \in 1..10 : DecimalDigits[d] # Head(str)) THEN <<>>
    ELSE <<Head(str)>> \o DigitsOf(Tail(str))

RECURSIVE DecimalValue(_)
DecimalValue(digits) ==
    IF digits = <<>> THEN 0
    ELSE 10 * DecimalValue(SubSeq(digits, 1, Len(digits) - 1))
             + (CHOOSE d \in 1..10 : DecimalDigits[d] = digits[Len(digits)]) - 1

\* src/index.ts line 21: parseInt(val, 10): leading white space is skipped,
\* a sign is taken, then the digits up to the first other character; NaN
\* when there is no digit
ParseInt(val) ==
    LET trimmed == TrimStart(val)
        signed == trimmed # <<>> /\ Head(trimmed) \in {"-", "+"}
        digits == DigitsOf(IF signed THEN Tail(trimmed) ELSE trimmed)
    IN  IF digits = <<>> THEN NaN
        ELSE IF signed /\ Head(trimmed) = "-" THEN 0 - DecimalValue(digits)
        ELSE DecimalValue(digits)

\* src/index.ts lines 14-26: the loop over the arguments from the i-th on;
\* maxLeaf is the value so far, 0 for undefined.  A value that is missing
\* or empty (<<>>) leaves maxLeaf as it is.
RECURSIVE ParseArguments(_, _, _)
ParseArguments(args, i, maxLeaf) ==
    IF i > Len(args) THEN maxLeaf
    ELSE LET arg == args[i]
         IN  IF arg = SummaryFlag \/ arg = SummaryShort
             THEN ParseArguments(args, i + 1, maxLeaf)
             ELSE IF \/ arg = MaxLeafFlag
                     \/ StartsWith(arg, MaxLeafFlag \o <<"=">>)
                     \/ arg = MaxLeafShort
                     \/ StartsWith(arg, MaxLeafShort \o <<"=">>)
             THEN LET val == IF Includes(arg, "=") THEN SecondPart(arg, "=")
                             ELSE IF i + 1 <= Len(args) THEN args[i + 1]
                             ELSE <<>>
                      next == IF Includes(arg, "=") THEN i + 1 ELSE i + 2
                  IN  ParseArguments(args, next,
                                     IF val # <<>> THEN ParseInt(val) ELSE maxLeaf)
             ELSE ParseArguments(args, i + 1, maxLeaf)

\* src/index.ts lines 8-31: the options main gives to buildTree, { maxLeaf }
MainOptions(args) ==
    [maxLeaf |-> ParseArguments(args, 1, 0), ignorePatterns |-> <<>>]

\* command lines: no argument, values that parse, values that do not
CommandLines ==
    { <<>>,
      <<SummaryShort>>,
      <<MaxLeafShort, <<"1">>>>,
      <<MaxLeafShort, <<"0">>>>,
      <<MaxLeafShort, <<"a">>>>,
      <<MaxLeafFlag, <<"a", "1">>>>,
      <<MaxLeafFlag, <<"1", "a">>>>,
      <<MaxLeafFlag, <<" ", "2">>>>,
      <<MaxLeafFlag, <<"\t", "\n", "U+00A0", "1">>>>,
      <<MaxLeafFlag \o <<"=", "2">>>>,
      <<MaxLeafFlag \o <<"=">>>>,
      <<MaxLeafFlag \o <<"=", "=", "2">>>>,
      <<MaxLeafShort \o <<"=", "a">>>>,
      <<MaxLeafShort \o <<"=", "1">>, MaxLeafShort \o <<"=", "a">>>>,
      <<MaxLeafShort \o <<"=", "a">>, MaxLeafShort \o <<"=", "1">>>>,
      <<MaxLeafShort, <<"-", "1">>>>,
      <<MaxLeafShort>> }

\* Every symbolic link of the model points to the directory it is in: an
\* ancestor of the link, so that following it is a cycle.
LinkTarget(p) == Dirname(p)

\* faulty variant: fs.stat, which follows a symbolic link to its target
StatFollowing(p) ==
    IF Basename(p) = GitignoreName
    THEN IF gitignore[Dirname(p)].exists THEN "file" ELSE "err"
    ELSE IF p \in AllPaths \ {Root} /\ fs[p] = "link" THEN fs[LinkTarget(p)]
    ELSE IF p \in AllPaths /\ fs[p] # "none" THEN fs[p] ELSE "err"

\* fs.lstat(p) in the scan of p's directory: the kind found, "err" when it
\* throws
Lstat(p) ==
    IF Basename(p) = GitignoreName
    THEN IF gitignore[Dirname(p)].exists THEN "file" ELSE "err"
    ELSE IF p \in AllPaths /\ fs[p] # "none" THEN fs[p] ELSE "err"

\* fs.lstat(p) by the call that visits p: a fleeting directory is gone
LstatOnVisit(p) == IF Lstat(p) = "fleeting" THEN "err" ELSE Lstat(p)

IsDirectory(kind) == kind \in {"dir", "nolist", "fleeting"}
\* faulty variant: stat instead of lstat: a link is never seen as one
NeverSymbolicLink(kind) == FALSE

IsSymbolicLink(kind) == kind = "link"

\* the byte length of the lines of a .gitignore file, joined by line feeds
RECURSIVE ContentLength(_, _)
ContentLength(lines, i) ==
    IF i > Len(lines) THEN 0
    ELSE LET line == lines[i]
             bytes == [t \in 1..Len(line) |-> Len(CodePoints(line[t]))]
             Sum[t \in 0..Len(line)] == IF t = 0 THEN 0 ELSE Sum[t - 1] + bytes[t]
         IN  Sum[Len(line)] + (IF i < Len(lines) THEN 1 ELSE 0)
             + ContentLength(lines, i + 1)

\* stats.size of a regular file, the byte length of its content (a
\* directory's size is never used)
SizeOf(p) ==
    IF Basename(p) = GitignoreName THEN ContentLength(gitignore[Dirname(p)].lines, 1)
    ELSE sizes[p]

\* the names fs.readdir(dir) returns, as a set
EntryNames(dir) ==
    {Basename(p) : p \in {q \in AllPaths \ {Root} :
                               Dirname(q) = dir /\ fs[q] # "none"}}
    \cup (IF gitignore[dir].exists THEN {GitignoreName} ELSE {})

RECURSIVE Ascending(_)
Ascending(S) ==
    IF S = {} THEN <<>>
    ELSE LET least == CHOOSE n \in S : \A m \in S : CodePointCompare(n, m) <= 0
         IN  <<least>> \o Ascending(S \ {least})

\* The order of readdir's result is the operating system's: the model lets
\* it be ascending or descending.
ReaddirOrders(dir) ==
    LET ascending == Ascending(EntryNames(dir))
        n == Len(ascending)
    IN  {ascending, [i \in 1..n |-> ascending[n + 1 - i]]}

----------------------------------------------------------------------------
(* Tree nodes. *)

FileNode(name, path, size) ==
    [name |-> name, path |-> path, type |-> "file", stats |-> [size |-> size]]

FolderNode(name, path, children) ==
    [name |-> name, path |-> path, type |-> "folder", children |-> children]

\* faulty variant: a skipped folder with an empty children field
SkippedWithChildren(name, path, why) ==
    [name |-> name, path |-> path, type |-> "folder", skipped |-> why,
     children |-> <<>>]

SkippedNode(name, path, why) ==
    [name |-> name, path |-> path, type |-> "folder", skipped |-> why]

HasChildren(n) == "children" \in DOMAIN n
IsSkipped(n) == "skipped" \in DOMAIN n

\* faulty variant: the failure of lstat makes an empty folder
StatFailedAsFolder(name, path) ==
    [name |-> name, path |-> path, type |-> "folder", children |-> <<>>]

\* lines 54-55: what the call returns when lstat of its path throws
StatFailed(name, path) == FileNode(name, path, 0)

\* faulty variant: the failure of readdir collapses the folder
ListingFailedAsSkipped(name, path) ==
    [name |-> name, path |-> path, type |-> "folder", skipped |-> "size"]

\* lines 94-100: what the call returns when readdir of its path throws
ListingFailed(name, path) == FolderNode(name, path, <<>>)

\* the comparison function given to children.sort
CompareNodes(a, b) ==
    IF a.type = b.type THEN LocaleCompare(a.name, b.name)
    ELSE IF a.type = "folder" THEN -1 ELSE 1

\* x put into the sorted sequence s, after the elements it does not precede
RECURSIVE InsertSorted(_, _, _)
InsertSorted(s, x, i) ==
    IF i > Len(s) \/ CompareNodes(x, s[i]) < 0
    THEN SubSeq(s, 1, i - 1) \o <<x>> \o SubSeq(s, i, Len(s))
    ELSE InsertSorted(s, x, i + 1)

\* faulty variant: the children stay in the order they were pushed
Unsorted(s) == s

\* Array.prototype.sort with CompareNodes (a stable sort)
RECURSIVE SortNodes(_)
SortNodes(s) ==
    IF s = <<>> THEN <<>>
    ELSE InsertSorted(SortNodes(SubSeq(s, 1, Len(s) - 1)), s[Len(s)], 1)

----------------------------------------------------------------------------
(* buildTree.  A call is a record of its parameters, its locals and the    *)
(* place it has reached; ignoreStack and newStack are references into heap *)
(* (JavaScript arrays are passed by reference).                            *)

NoRef == 0

NewCall(path, ignoreStack) ==
    [currentPath |-> path, ignoreStack |-> ignoreStack, pc |-> "lstat",
     newStack |-> NoRef, childrenItems |-> <<>>, i |-> 1,
     candidates |-> <<>>, children |-> <<>>]

Top == calls[Len(calls)]
Running == calls # <<>>
SetTop(call) == [calls EXCEPT ![Len(calls)] = call]

\* The call on top returns node: the top-level call resolves with it, any
\* other hands it to its caller, which pushes it and goes on with its loop.
Return(node) ==
    IF Len(calls) = 1
    THEN /\ result' = <<node>>
         /\ calls' = <<>>
    ELSE LET caller == calls[Len(calls) - 1]
             n == caller.i + 1
             resumed == [caller EXCEPT
                            !.children = Append(@, node),
                            !.i = n,
                            !.pc = IF n > Len(caller.candidates) THEN "sort" ELSE "emit"]
         IN  /\ calls' = Append(SubSeq(calls, 1, Len(calls) - 2), resumed)
             /\ UNCHANGED result

\* what the promise of the top-level call is rejected with
Rejected(error) == [type |-> "rejected", error |-> error]

\* An error is thrown in the call on top.  No call awaits its callee inside
\* a try block (line 155), so every call in progress ends and the promise
\* of the top-level call is rejected.
Reject(error) ==
    /\ result' = <<Rejected(error)>>
    /\ calls' = <<>>

\* lines 49-69: lstat of currentPath; anything but a directory is returned
\* as a file node
LstatPath ==
    /\ Running /\ Top.pc = "lstat"
    /\ LET path == Top.currentPath
           name == Basename(path)
           stats == LstatOnVisit(path)
       IN  IF stats = "err" THEN Return(StatFailed(name, path))
           ELSE IF IsSymbolicLink(stats) THEN Return(FileNode(name, path, 0))
           ELSE IF ~IsDirectory(stats) THEN Return(FileNode(name, path, SizeOf(path)))
           ELSE /\ calls' = SetTop([Top EXCEPT !.pc = "declare"])
                /\ UNCHANGED result
    /\ touched' = touched \cup {<<"lstat", Top.currentPath>>}
    /\ UNCHANGED <<fs, sizes, gitignore, options, heap, scanned, summary>>
    /\ UNCHANGED issueVars

\* faulty variant: ".git" and the caller's patterns are added at every level
CurrentIgEveryLevel(path, ignoreStack) ==
    LET global == AddPatterns(AddPatterns(<<>>, <<Pattern(DotGit)>>),
                              options.ignorePatterns)
    IN  IF gitignore[path].readable
        THEN AddPatterns(global, gitignore[path].lines)
        ELSE global

\* lines 72-86: the matcher of this directory
CurrentIg(path, ignoreStack) ==
    LET fresh == <<>>
        global == IF Len(ignoreStack) = 0
                  THEN AddPatterns(AddPatterns(fresh, <<Pattern(DotGit)>>),
                                   options.ignorePatterns)
                  ELSE fresh
    IN  IF gitignore[path].readable
        THEN AddPatterns(global, gitignore[path].lines)
        ELSE global

\* faulty variant: ignoreStack.push(level) before the copy: the caller's array
\* gets the level too
PushThenCopy(h, ref, level) ==
    Append([h EXCEPT ![ref] = Append(@, level)], Append(h[ref], level))

\* line 89: [...ignoreStack, level], a new array; the result is the heap
\* with the new array in it, whose reference is the heap's length
SpreadAppend(h, ref, level) == Append(h, Append(h[ref], level))

DeclareLevel ==
    /\ Running /\ Top.pc = "declare"
    /\ LET path == Top.currentPath
           currentIg == CurrentIg(path, heap[Top.ignoreStack])
           level == [ignorer |-> currentIg, basePath |-> path]
       IN  /\ heap' = SpreadAppend(heap, Top.ignoreStack, level)
           /\ calls' = SetTop([Top EXCEPT !.newStack = Len(heap'), !.pc = "readdir"])
    /\ touched' = touched \cup {<<"readFile", Join(Top.currentPath, GitignoreName)>>}
    /\ UNCHANGED <<fs, sizes, gitignore, options, result, scanned, summary>>
    /\ UNCHANGED issueVars

\* lines 91-101: readdir; a directory that cannot be listed is returned
\* with no children
ReadDirectory ==
    /\ Running /\ Top.pc = "readdir"
    /\ LET path == Top.currentPath
       IN  IF fs[path] = "nolist"
           THEN Return(ListingFailed(Basename(path), path))
           ELSE /\ \E items \in ReaddirOrders(path) :
                     calls' = SetTop([Top EXCEPT
                                         !.childrenItems = items,
                                         !.i = 1,
                                         !.pc = IF items = <<>> THEN "decide" ELSE "scan"])
                /\ UNCHANGED result
    /\ touched' = touched \cup {<<"readdir", Top.currentPath>>}
    /\ UNCHANGED <<fs, sizes, gitignore, options, heap, scanned, summary>>
    /\ UNCHANGED issueVars

\* faulty variant: the deepest level alone decides
IgnoredByDeepest(stack, k, itemPath, isDir) ==
    LET top == stack[Len(stack)]
        relPath == SubSeq(itemPath, Len(top.basePath) + 1, Len(itemPath))
        asFile == Ignores(top.ignorer, FilePath(relPath))
    IN  IF asFile.error # NoError \/ asFile.ignored \/ ~isDir THEN asFile
        ELSE Ignores(top.ignorer, DirPath(relPath))

\* faulty variant: the directory form "relPath/" is tested for files too
RECURSIVE IgnoredAsDirectory(_, _, _, _)
IgnoredAsDirectory(stack, k, itemPath, isDir) ==
    IF k > Len(stack) THEN [error |-> NoError, ignored |-> FALSE]
    ELSE LET relPath == SubSeq(itemPath, Len(stack[k].basePath) + 1, Len(itemPath))
             asFile == Ignores(stack[k].ignorer, FilePath(relPath))
             asDir == Ignores(stack[k].ignorer, DirPath(relPath))
         IN  IF asFile.error # NoError \/ asFile.ignored THEN asFile
             ELSE IF asDir.error # NoError \/ asDir.ignored THEN asDir
             ELSE IgnoredAsDirectory(stack, k + 1, itemPath, isDir)

\* lines 112-124: the loop over the ignorers of the stack, from level k on:
\* the error of the first call of ignores that throws, or whether the item
\* is ignored by any ignorer
RECURSIVE IgnoredByStack(_, _, _, _)
IgnoredByStack(stack, k, itemPath, isDir) ==
    IF k > Len(stack) THEN [error |-> NoError, ignored |-> FALSE]
    ELSE LET relPath == Relative(stack[k].basePath, itemPath)
             asFile == Ignores(stack[k].ignorer, FilePath(relPath))
             asDir == Ignores(stack[k].ignorer, DirPath(relPath))
         IN  IF asFile.error # NoError \/ asFile.ignored THEN asFile
             ELSE IF isDir /\ (asDir.error # NoError \/ asDir.ignored) THEN asDir
             ELSE IgnoredByStack(stack, k + 1, itemPath, isDir)

\* faulty variant: everything but a directory is left out
DroppedUnlessDirectory(kind) == ~IsDirectory(kind)

\* faulty variant: only symbolic links are left out
DroppedLinksOnly(kind) == IsSymbolicLink(kind)

\* lines 106-109: the entries the scan loop passes over
Dropped(kind) == kind = "err" \/ IsSymbolicLink(kind)

\* faulty variant: the candidate is put in front of the others
Unshift(candidates, cand) == <<cand>> \o candidates

\* line 126: candidates.push
Push(candidates, cand) == Append(candidates, cand)

\* lines 104-127: one turn of the loop over childrenItems.  An error that
\* ignores throws is caught nowhere: the call throws it.
ScanEntry ==
    /\ Running /\ Top.pc = "scan"
    /\ LET item == Top.childrenItems[Top.i]
           itemPath == Join(Top.currentPath, item)
           s == Lstat(itemPath)
           n == Top.i + 1
           next == [Top EXCEPT !.i = n,
                               !.pc = IF n > Len(Top.childrenItems) THEN "decide" ELSE "scan"]
           isIgnored == IgnoredByStack(heap[Top.newStack], 1, itemPath, IsDirectory(s))
           cand == [name |-> item, path |-> itemPath,
                    isIgnored |-> isIgnored.ignored,
                    stats |-> [isDirectory |-> IsDirectory(s),
                               size |-> IF IsDirectory(s) THEN 0 ELSE SizeOf(itemPath)]]
       IN  IF Dropped(s)
           THEN /\ calls' = SetTop(next)
                /\ UNCHANGED <<result, scanned>>
           ELSE IF isIgnored.error # NoError
           THEN /\ Reject(isIgnored.error)
                /\ UNCHANGED scanned
           ELSE /\ calls' = SetTop([next EXCEPT !.candidates = Push(@, cand)])
                /\ scanned' = scanned \cup {cand}
                /\ UNCHANGED result
    /\ touched' = touched \cup {<<"lstat", Join(Top.currentPath, Top.childrenItems[Top.i])>>}
    /\ UNCHANGED <<fs, sizes, gitignore, options, heap, summary>>
    /\ UNCHANGED issueVars

\* faulty variant: every candidate counts, ignored or not
RawCount(candidates) == Len(candidates)

\* faulty variant: only the files that are not ignored count
VisibleFilesCount(candidates) ==
    Len(SelectSeq(candidates, LAMBDA c : ~c.isIgnored /\ ~c.stats.isDirectory))

\* line 129
VisibleCount(candidates) ==
    Len(SelectSeq(candidates, LAMBDA c : ~c.isIgnored))

\* faulty variant: collapsed from maxLeaf entries on
AtLeastMaxLeaf(maxLeaf, visibleCount) == maxLeaf # 0 /\ visibleCount >= maxLeaf

\* faulty variant: zero is a threshold like any other number
TruthyOrZero(number) == number # NaN

\* line 131: the left operand of &&; of the numbers 0 and NaN are falsy
Truthy(number) == number # NaN /\ number # 0

\* line 131: the condition on which the directory is collapsed
TooMany(maxLeaf, visibleCount) == Truthy(maxLeaf) /\ visibleCount > maxLeaf

\* lines 129-140
DecideLeaf ==
    /\ Running /\ Top.pc = "decide"
    /\ LET path == Top.currentPath
       IN  IF TooMany(options.maxLeaf, VisibleCount(Top.candidates))
           THEN Return(SkippedNode(Basename(path), path, "size"))
           ELSE /\ calls' = SetTop([Top EXCEPT
                                       !.i = 1,
                                       !.pc = IF Top.candidates = <<>>
                                              THEN "sort" ELSE "emit"])
                /\ UNCHANGED result
    /\ UNCHANGED <<fs, sizes, gitignore, options, heap, scanned, summary, touched>>
    /\ UNCHANGED issueVars

\* faulty variant: an ignored file is kept as a file node
LeafChildKeepingFiles(cand) ==
    IF cand.isIgnored /\ cand.stats.isDirectory
    THEN <<[name |-> cand.name, path |-> cand.path, type |-> "folder",
            skipped |-> "gitignore"]>>
    ELSE <<[name |-> cand.name, path |-> cand.path, type |-> "file",
            stats |-> [size |-> cand.stats.size]]>>

\* lines 142-152 and 157-162: the children that need no call, as a sequence
\* of zero or one node
LeafChild(cand) ==
    IF cand.isIgnored
    THEN IF cand.stats.isDirectory
         THEN <<SkippedNode(cand.name, cand.path, "gitignore")>>
         ELSE <<>>
    ELSE <<FileNode(cand.name, cand.path, cand.stats.size)>>

\* faulty variant: an excluded directory is descended into as well
DescendsIntoExcluded(cand) == cand.stats.isDirectory

\* lines 142 and 153: the candidates a recursive call is made for
Descends(cand) == ~cand.isIgnored /\ cand.stats.isDirectory

\* lines 141-164: one turn of the loop over candidates; a visible directory
\* is a recursive call, which gets this call's newStack
EmitChild ==
    /\ Running /\ Top.pc = "emit"
    /\ LET cand == Top.candidates[Top.i]
           n == Top.i + 1
       IN  IF Descends(cand)
           THEN calls' = Append(calls, NewCall(cand.path, Top.newStack))
           ELSE calls' = SetTop([Top EXCEPT
                                    !.children = @ \o LeafChild(cand),
                                    !.i = n,
                                    !.pc = IF n > Len(Top.candidates)
                                           THEN "sort" ELSE "emit"])
    /\ UNCHANGED <<fs, sizes, gitignore, options, heap, result, scanned, summary, touched>>
    /\ UNCHANGED issueVars

\* lines 166-178
SortAndReturn ==
    /\ Running /\ Top.pc = "sort"
    /\ Return(FolderNode(Basename(Top.currentPath), Top.currentPath,
                         SortNodes(Top.children)))
    /\ UNCHANGED <<fs, sizes, gitignore, options, heap, scanned, summary, touched>>
    /\ UNCHANGED issueVars

----------------------------------------------------------------------------
(* getSummary. *)

\* faulty variant: a skipped folder is counted by its skip counter alone
CountSkippedApart(s, n) ==
    IF n.type = "folder"
    THEN IF IsSkipped(n) /\ n.skipped = "gitignore"
         THEN [s EXCEPT !.skippedGitignore = @ + 1]
         ELSE IF IsSkipped(n) /\ n.skipped = "size"
         THEN [s EXCEPT !.skippedSize = @ + 1]
         ELSE [s EXCEPT !.totalFolders = @ + 1]
    ELSE [s EXCEPT !.totalFiles = @ + 1]

\* lines 22-29: the counters after traverse has counted node n itself
Count(s, n) ==
    IF n.type = "folder"
    THEN [s EXCEPT
            !.totalFolders = @ + 1,
            !.skippedGitignore = IF IsSkipped(n) /\ n.skipped = "gitignore"
                                 THEN @ + 1 ELSE @,
            !.skippedSize = IF IsSkipped(n) /\ n.skipped = "size"
                            THEN @ + 1 ELSE @]
    ELSE [s EXCEPT !.totalFiles = @ + 1]

\* lines 21-33: traverse(n), and n.children.forEach(traverse) from child i on
RECURSIVE Traverse(_, _), ForEachChild(_, _, _)
Traverse(s, n) ==
    IF HasChildren(n) THEN ForEachChild(Count(s, n), n.children, 1)
    ELSE Count(s, n)
ForEachChild(s, children, i) ==
    IF i > Len(children) THEN s
    ELSE ForEachChild(Traverse(s, children[i]), children, i + 1)

\* lines 13-37
GetSummary(node) ==
    Traverse([totalFiles |-> 0, totalFolders |-> 0,
              skippedGitignore |-> 0, skippedSize |-> 0], node)

\* getSummary (lines 13-37) is called on the tree the top-level call
\* resolved with
Summarize ==
    /\ result # Pending /\ result[1].type # "rejected"
    /\ summary = NoSummary
    /\ summary' = <<GetSummary(result[1])>>
    /\ UNCHANGED <<fs, sizes, gitignore, options, heap, calls, result, scanned, touched>>
    /\ UNCHANGED issueVars

----------------------------------------------------------------------------
(* The specification: buildTree(Root, options) on any of the filesystems,  *)
(* and getSummary on the tree it returns.                                  *)

\* no issue creator is run
NoIssueCreator ==
    /\ creator = "none"
    /\ env = [token |-> "", clientId |-> "", privateKeyPath |-> ""]
    /\ keychain = [a \in {"token", "client-id", "private-key-path"} |-> ""]
    /\ expired = FALSE
    /\ run = [pc |-> "none"]
    /\ trace = <<>>
    /\ commands = <<>>

-----------------------------------------------------------------------------
(* The earlier buildTree of part_000: one matcher for each directory, made *)
(* of the caller's matcher, ".git", the ignorePatterns and the directory's *)
(* own .gitignore, and asked about the entry's name alone.  It is a        *)
(* function of the filesystem, computed here on the ascending listing.     *)

\* part_000 lines 828-843: the matcher of the directory at path
MergedIg(path, parentIg) ==
    LET ig == AddPatterns(AddPatterns(parentIg, <<Pattern(DotGit)>>),
                          options.ignorePatterns)
    IN  IF gitignore[path].readable
        THEN AddPatterns(ig, gitignore[path].lines)
        ELSE ig

\* faulty variant: the matcher is asked about the path from the scan root
IgnoresFromRoot(ig, itemPath) == Ignores(ig, FilePath(Relative(Root, itemPath)))

\* part_000 line 862: ig.ignores(item), item being the name of the entry
MergedIgnores(ig, itemPath) == Ignores(ig, FilePath(<<Basename(itemPath)>>))

\* part_000 lines 855-864: the candidates of the items from the i-th on
RECURSIVE MergedCandidates(_, _, _, _)
MergedCandidates(path, items, i, ig) ==
    IF i > Len(items) THEN <<>>
    ELSE LET itemPath == Join(path, items[i])
             s == Lstat(itemPath)
             cand == [name |-> items[i], path |-> itemPath,
                      isIgnored |-> MergedIgnores(ig, itemPath).ignored,
                      stats |-> [isDirectory |-> IsDirectory(s),
                                 size |-> IF IsDirectory(s) THEN 0
                                          ELSE SizeOf(itemPath)]]
         IN  (IF Dropped(s) THEN <<>> ELSE <<cand>>)
                 \o MergedCandidates(path, items, i + 1, ig)

\* part_000 lines 800-918; an error that ignores throws in the scan of a
\* directory, or that a recursive call throws, is thrown on
RECURSIVE MergedBuildTree(_, _), MergedChildren(_, _, _)
MergedBuildTree(currentPath, parentIg) ==
    LET name == Basename(currentPath)
        stats == LstatOnVisit(currentPath)
    IN  IF stats = "err" \/ IsSymbolicLink(stats)
        THEN FileNode(name, currentPath, 0)
        ELSE IF ~IsDirectory(stats)
        THEN FileNode(name, currentPath, SizeOf(currentPath))
        ELSE IF stats = "nolist" THEN FolderNode(name, currentPath, <<>>)
        ELSE LET ig == MergedIg(currentPath, parentIg)
                 candidates == MergedCandidates(currentPath,
                                   Ascending(EntryNames(currentPath)), 1, ig)
                 thrown == {MergedIgnores(ig, c.path).error :
                               c \in {candidates[i] : i \in 1..Len(candidates)}}
                               \ {NoError}
                 children == MergedChildren(candidates, 1, ig)
                 failed == {i \in 1..Len(children) : children[i].type = "rejected"}
             IN  IF thrown # {} THEN Rejected(CHOOSE error \in thrown : TRUE)
                 ELSE IF TooMany(options.maxLeaf, VisibleCount(candidates))
                 THEN SkippedNode(name, currentPath, "size")
                 ELSE IF failed # {}
                 THEN children[CHOOSE i \in failed : \A j \in failed : i <= j]
                 ELSE FolderNode(name, currentPath, SortNodes(children))
MergedChildren(candidates, i, ig) ==
    IF i > Len(candidates) THEN <<>>
    ELSE LET cand == candidates[i]
         IN  (IF cand.isIgnored
              THEN IF cand.stats.isDirectory
                   THEN <<SkippedNode(cand.name, cand.path, "gitignore")>>
                   ELSE <<>>
              ELSE IF cand.stats.isDirectory
              THEN <<MergedBuildTree(cand.path, ig)>>
              ELSE <<FileNode(cand.name, cand.path, cand.stats.size)>>)
                 \o MergedChildren(candidates, i + 1, ig)

-----------------------------------------------------------------------------

\* Any of the filesystems, its .gitignore files and the options; of the
\* regular files, those named a are empty and the others have content.
Init ==
    /\ fs \in FileSystems(Universe)
    /\ sizes \in {s \in FileSizes(fs, FALSE) :
                     \A p \in AllPaths :
                        fs[p] = "file" => (s[p] = 0 <=> Basename(p) = "a")}
    /\ gitignore \in GitignoreFiles(fs)
    /\ options \in OptionValues
    /\ heap = << <<>> >>
    /\ calls = <<NewCall(Root, 1)>>
    /\ result = Pending
    /\ scanned = {}
    /\ summary = NoSummary
    /\ touched = {}
    /\ NoIssueCreator

Next ==
    \/ LstatPath
    \/ DeclareLevel
    \/ ReadDirectory
    \/ ScanEntry
    \/ DecideLeaf
    \/ EmitChild
    \/ SortAndReturn
    \/ Summarize

Spec == Init /\ [][Next]_vars

\* the same program on the filesystems on which operations fail; the
\* regular files are all empty or all with content
FaultInit ==
    /\ fs \in FileSystems(FaultUniverse)
    /\ sizes \in FileSizes(fs, TRUE)
    /\ gitignore \in FaultGitignoreFiles(fs)
    /\ options \in OptionValues
    /\ heap = << <<>> >>
    /\ calls = <<NewCall(Root, 1)>>
    /\ result = Pending
    /\ scanned = {}
    /\ summary = NoSummary
    /\ touched = {}
    /\ NoIssueCreator

FaultSpec == FaultInit /\ [][Next]_vars

\* buildTree of part_002 called with the maxLeaf that the argument loop of
\* src/index.ts (lines 14-26) makes of a command line.  (The module ./core
\* that src/index.ts itself imports is a stand-in whose buildTree returns
\* the root folder without children and which has no getSummary; the
\* buildTree with the maxLeaf option is the one of part_002.)
ParsedMaxLeafInit ==
    /\ fs \in FileSystems(FaultUniverse)
    /\ sizes \in FileSizes(fs, FALSE)
    /\ gitignore \in FaultGitignoreFiles(fs)
    /\ options \in {MainOptions(args) : args \in CommandLines}
    /\ heap = << <<>> >>
    /\ calls = <<NewCall(Root, 1)>>
    /\ result = Pending
    /\ scanned = {}
    /\ summary = NoSummary
    /\ touched = {}
    /\ NoIssueCreator

ParsedMaxLeafSpec == ParsedMaxLeafInit /\ [][Next]_vars

\* The same program on the filesystems of NameUniverse.  Every regular file
\* has content; the only .gitignore file is the root's, with the pattern
\* sub/name; maxLeaf is any number (none, NaN, a negative number, zero, a
\* positive number), and one options value has ignorePatterns besides.
NameInit ==
    /\ fs \in FileSystems(NameUniverse)
    /\ sizes = [p \in AllPaths |-> IF fs[p] = "file" THEN 7 ELSE 0]
    /\ gitignore \in {[p \in AllPaths |-> IF p = Root THEN r ELSE NoFile] :
                       r \in IF fs[Root] = "dir"
                             THEN {NoFile, File(<<PathPattern("sub", "name")>>)}
                             ELSE {NoFile}}
    /\ options \in {[maxLeaf |-> n, ignorePatterns |-> <<>>] :
                        n \in {NaN} \cup (-1..MaxLeafBound)}
                   \cup {[maxLeaf |-> MaxLeafBound,
                          ignorePatterns |-> <<Pattern("name")>>]}
    /\ heap = << <<>> >>
    /\ calls = <<NewCall(Root, 1)>>
    /\ result = Pending
    /\ scanned = {}
    /\ summary = NoSummary
    /\ touched = {}
    /\ NoIssueCreator

NameSpec == NameInit /\ [][Next]_vars

----------------------------------------------------------------------------
(* What the filesystem and the options declare, stated without the scan.   *)

\* the top-level call has resolved with a tree; it has thrown
Done == result # Pending /\ result[1].type # "rejected"
Rejects == result # Pending /\ result[1].type = "rejected"
Tree == result[1]

Range(seq) == {seq[i] : i \in 1..Len(seq)}

\* every node of a tree
RECURSIVE NodesOf(_)
NodesOf(n) ==
    {n} \cup (IF HasChildren(n) THEN UNION {NodesOf(c) : c \in Range(n.children)}
              ELSE {})

TreeNodes == IF Done THEN NodesOf(Tree) ELSE {}
NodesAt(p) == {n \in TreeNodes : n.path = p}

\* the directories from the scan root down to dir
DirsDownTo(dir) == {SubSeq(dir, 1, k) : k \in Len(Root)..Len(dir)}

\* the rules a directory declares: its .gitignore and, at the scan root,
\* ".git" and the caller's patterns before it
DeclaredRules(dir) ==
    LET rulesOf(lines) == [i \in 1..Len(lines) |-> MakeRule(lines[i])]
    IN  (IF dir = Root
         THEN <<MakeRule(<<DotGit>>)>> \o rulesOf(options.ignorePatterns)
         ELSE <<>>)
        \o (IF gitignore[dir].readable THEN rulesOf(gitignore[dir].lines) ELSE <<>>)

\* the level of dir excludes the entry at path p
LevelExcludes(dir, p, isDir) ==
    LET rel == SubSeq(p, Len(dir) + 1, Len(p))
    IN  \/ Ignores(DeclaredRules(dir), FilePath(rel)).ignored
        \/ isDir /\ Ignores(DeclaredRules(dir), DirPath(rel)).ignored

ExcludedBySomeLevel(p, isDir) ==
    \E dir \in DirsDownTo(Dirname(p)) : LevelExcludes(dir, p, isDir)

----------------------------------------------------------------------------
(* Claims. *)

\* C1: an entry is classified as excluded exactly when at least one level
\* of the rule stack, from the scan root down to the entry's directory,
\* excludes the entry's path relative to that level's directory; so a
\* deeper level (a negation included) never re-includes it.
ExclusionIsAnyLevel ==
    Done => \A c \in scanned :
                c.isIgnored <=> ExcludedBySomeLevel(c.path, c.stats.isDirectory)

\* C1 witness: sub/name is excluded by the root's level although the level
\* of sub declares "!name" and does not exclude it
AncestorExclusionKept ==
    Done /\ \E c \in scanned :
        /\ c.path = Join(SubDir, "name")
        /\ c.isIgnored
        /\ gitignore[SubDir] = File(<<Negation("name")>>)
        /\ LevelExcludes(Root, c.path, c.stats.isDirectory)
        /\ ~LevelExcludes(SubDir, c.path, c.stats.isDirectory)

\* the only ignore declaration anywhere is "sub/name" in the root's .gitignore
OnlyRootDeclaresSubName ==
    /\ gitignore[Root] = File(<<PathPattern("sub", "name")>>)
    /\ \A d \in AllPaths \ {Root} : ~gitignore[d].exists
    /\ options.ignorePatterns = <<>>

\* the entries called "name"
EntriesCalledName ==
    {q \in AllPaths \ {Root} : Basename(q) = "name" /\ fs[q] # "none"}

IsSubNameInAnyCase(p) ==
    /\ Len(p) = Len(Root) + 2
    /\ FoldCase(p[Len(Root) + 1]) = FoldCase("sub")
    /\ FoldCase(p[Len(Root) + 2]) = FoldCase("name")

StackFor(dir) ==
    [k \in 1..(Len(dir) - Len(Root) + 1) |->
        LET d == SubSeq(dir, 1, Len(Root) + k - 1)
        IN  [ignorer |-> DeclaredRules(d), basePath |-> d]]

\* C3: the stack of every call in progress, the callers included, holds
\* exactly the levels of the directories from the scan root down to the
\* call's directory; nothing a sibling or a finished subtree declared is in
\* it, and no recursive call changes it.
StackIsPathFromRoot ==
    \A k \in 1..Len(calls) :
        calls[k].newStack # NoRef =>
            heap[calls[k].newStack] = StackFor(calls[k].currentPath)

\* C3 witness: sub is being scanned after its sibling other, which declares
\* rules of its own, has been visited and returned
SiblingVisitedBefore ==
    /\ Len(calls) = 2
    /\ Top.currentPath = SubDir
    /\ Top.pc = "scan"
    /\ gitignore[OtherDir].exists
    /\ \E n \in Range(calls[1].children) : n.path = OtherDir /\ HasChildren(n)

\* the node of the directory an entry is in
ParentNodes(p) == NodesAt(Dirname(p))

\* what the tree shows of an excluded entry whose directory was expanded:
\* a directory as a stub in its directory's children, a file nowhere
ShownAsExcluded(c) ==
    IF c.stats.isDirectory
    THEN /\ \A n \in NodesAt(c.path) :
                n = [name |-> c.name, path |-> c.path, type |-> "folder",
                     skipped |-> "gitignore"]
         /\ \E parent \in ParentNodes(c.path) :
                /\ HasChildren(parent)
                /\ \E n \in Range(parent.children) : n.path = c.path
    ELSE NodesAt(c.path) = {}

\* C4 as stated: every entry classified as excluded shows as excluded: a
\* directory as a stub among its parent's children, a file nowhere.
ExcludedAlwaysShown ==
    Done => \A c \in {x \in scanned : x.isIgnored} : ShownAsExcluded(c)

\* C4 amended: the above for the entries of a directory that was not
\* collapsed for size; of the entries of a collapsed directory the tree has
\* no node at all.
ExcludedShownUnlessCollapsed ==
    Done => \A c \in {x \in scanned : x.isIgnored} :
                IF \E parent \in ParentNodes(c.path) : IsSkipped(parent)
                THEN NodesAt(c.path) = {}
                ELSE ShownAsExcluded(c)

\* C4 witness: an excluded directory is a stub and an excluded file is gone
StubAndDroppedFile ==
    /\ Done
    /\ \E c \in scanned : /\ c.isIgnored /\ c.stats.isDirectory
                          /\ NodesAt(c.path) # {}
    /\ \E c \in scanned : c.isIgnored /\ ~c.stats.isDirectory

\* every declared pattern is a directory-only pattern
IsDirOnlyLine(line) == Len(line) = 2 /\ line[2] = "/"
OnlyDirOnlyDeclared ==
    /\ options.ignorePatterns = <<>>
    /\ \A d \in AllPaths :
           gitignore[d].exists => \A i \in 1..Len(gitignore[d].lines) :
                                      IsDirOnlyLine(gitignore[d].lines[i])

\* a directory from the scan root down to dir declares the pattern "name/"
DeclaredDirOnlyAbove(dir, name) ==
    \E d \in DirsDownTo(dir) :
        gitignore[d].readable /\ <<name, "/">> \in Range(gitignore[d].lines)

\* C5: where only directory-only patterns are declared, no regular file is
\* excluded (not one named like the pattern, not one whose name starts with
\* it) and a directory is excluded exactly when a level above it declares
\* its name.
DirOnlyPatternSparesFiles ==
    (Done /\ OnlyDirOnlyDeclared) =>
        \A c \in scanned :
            c.isIgnored <=> (c.stats.isDirectory
                             /\ DeclaredDirOnlyAbove(Dirname(c.path), c.name))

\* C5 witness: under "coverage/" the directory coverage is excluded and the
\* file coverage_file is not
CoverageDirNotCoverageFile ==
    /\ Done
    /\ gitignore[Root] = File(<<DirOnlyPattern("coverage")>>)
    /\ \E c \in scanned : c.name = "coverage" /\ c.stats.isDirectory /\ c.isIgnored
    /\ \E c \in scanned : c.name = "coverage_file" /\ ~c.isIgnored

\* the immediate entries of dir that are stat-able, no symbolic links and
\* not excluded by an ignore rule
VisibleEntries(dir) ==
    IF fs[dir] # "dir" THEN {}
    ELSE {n \in EntryNames(dir) :
             LET kind == Lstat(Join(dir, n))
             IN  /\ kind \in {"file", "dir", "nolist", "fleeting"}
                 /\ ~ExcludedBySomeLevel(Join(dir, n),
                                         kind \in {"dir", "nolist", "fleeting"})}

\* the folder nodes buildTree made of a directory it visited
VisitedFolders == {n \in TreeNodes : n.type = "folder" /\ ~(IsSkipped(n) /\ n.skipped = "gitignore")}

\* C6: with maxLeaf = N > 0, a visited directory is returned collapsed
\* (skipped = "size", no children) exactly when it has more than N visible
\* entries.
CollapsedIffMoreVisibleThanMaxLeaf ==
    (Done /\ options.maxLeaf > 0) =>
        \A n \in VisitedFolders :
            (IsSkipped(n) /\ n.skipped = "size" /\ ~HasChildren(n))
                <=> Cardinality(VisibleEntries(n.path)) > options.maxLeaf

\* C6 witness: one directory with exactly maxLeaf visible entries and more
\* raw entries is expanded, another is collapsed
ExpandedAtMaxLeafAndCollapsed ==
    /\ Done /\ options.maxLeaf > 0
    /\ \E n \in VisitedFolders :
           /\ HasChildren(n)
           /\ Cardinality(VisibleEntries(n.path)) = options.maxLeaf
           /\ Cardinality(EntryNames(n.path)) > options.maxLeaf
    /\ \E n \in VisitedFolders : IsSkipped(n)

\* C7: a node with a skipped marker is a folder without a children field, a
\* file node has no children field, and a folder node without a marker has
\* one.
NodeShapes ==
    Done => \A n \in TreeNodes :
                /\ IsSkipped(n) => (n.type = "folder" /\ ~HasChildren(n)
                                    /\ n.skipped \in {"gitignore", "size"})
                /\ n.type = "file" => ~HasChildren(n)
                /\ (n.type = "folder" /\ ~IsSkipped(n)) => HasChildren(n)

\* C7 witness: a tree with a collapsed folder, an expanded one and a file
AllShapesInOneTree ==
    /\ Done
    /\ \E n \in TreeNodes : IsSkipped(n)
    /\ \E n \in TreeNodes : n.type = "folder" /\ HasChildren(n) /\ n.children # <<>>
    /\ \E n \in TreeNodes : n.type = "file"

\* C8 as stated: the node of the top-level call is a folder without a
\* skipped marker.
RootIsPlainFolder ==
    Done => (Tree.type = "folder" /\ ~IsSkipped(Tree))

\* C8 amended: for a root path that is a directory, the node the top-level
\* call returns is a folder that is never marked "gitignore"; maxLeaf
\* applies to it as to any directory, so it is marked "size" exactly when
\* the root can be listed, maxLeaf is a number other than 0 and NaN (a
\* negative number too) and the root's visible entries are more than
\* maxLeaf.  For any other root path the node is a file node.
RootFolderUnlessCollapsed ==
    Done =>
        IF fs[Root] \in {"dir", "nolist"}
        THEN /\ Tree.type = "folder"
             /\ IsSkipped(Tree) <=> (/\ fs[Root] = "dir"
                                     /\ options.maxLeaf \notin {0, NaN}
                                     /\ Cardinality(VisibleEntries(Root)) > options.maxLeaf)
             /\ IsSkipped(Tree) => Tree.skipped = "size"
        ELSE Tree.type = "file"

\* C8 witness: a root directory without entries is returned collapsed under
\* a negative maxLeaf
EmptyRootCollapsed ==
    /\ Done /\ options.maxLeaf < 0 /\ options.maxLeaf # NaN
    /\ fs[Root] = "dir" /\ EntryNames(Root) = {}
    /\ IsSkipped(Tree) /\ Tree.skipped = "size"

\* C9 as stated: no node has a path that is a symbolic link, the root
\* path included.
NoLinkNodeAnywhere ==
    Done => \A n \in TreeNodes : Lstat(n.path) # "link"

\* C9 amended: no node below the root node has a path that is a symbolic
\* link; a root path that is itself a symbolic link is returned as a single
\* file node of size 0.
NoLinkNodeBelowRoot ==
    Done => /\ \A n \in TreeNodes : n.path # Root => Lstat(n.path) # "link"
            /\ fs[Root] = "link" =>
                   Tree = [name |-> "repo", path |-> Root, type |-> "file",
                           stats |-> [size |-> 0]]

\* C9 witness: a directory with a symbolic link in it has been scanned
LinkEntrySkipped ==
    /\ Done /\ HasChildren(Tree)
    /\ fs[Join(Root, "link")] = "link"
    /\ Tree.children # <<>>

\* the children of a node, folders before files
FoldersFirst(ch) ==
    \A i, j \in 1..Len(ch) :
        (i < j /\ ch[i].type # ch[j].type) => ch[i].type = "folder"

\* C10 as stated: children are folders first and, within each group, in
\* code-point order of name ("B" before "a").
ChildrenInCodePointOrder ==
    Done => \A n \in {x \in TreeNodes : HasChildren(x)} :
                /\ FoldersFirst(n.children)
                /\ \A i, j \in 1..Len(n.children) :
                       (i < j /\ n.children[i].type = n.children[j].type) =>
                           CodePointCompare(n.children[i].name, n.children[j].name) < 0

\* C10 amended: children are folders first and, within each group, in the
\* order of localeCompare, the locale's collation, in which letters compare
\* without regard to case first ("a" before "B").
ChildrenInLocaleOrder ==
    Done => \A n \in {x \in TreeNodes : HasChildren(x)} :
                /\ FoldersFirst(n.children)
                /\ \A i, j \in 1..Len(n.children) :
                       (i < j /\ n.children[i].type = n.children[j].type) =>
                           LocaleCompare(n.children[i].name, n.children[j].name) < 0

\* C10 witness: the root's children are a folder, then the files "a" and
\* "B" in that order
SortedAgainstListing ==
    /\ Done /\ HasChildren(Tree) /\ Len(Tree.children) = 3
    /\ Tree.children[1].type = "folder"
    /\ Tree.children[2].name = "a"
    /\ Tree.children[3].name = "B"

\* the rules made of the lines of dir's own .gitignore, none when the file
\* is absent or cannot be read
OwnRules(dir) ==
    IF gitignore[dir].exists /\ gitignore[dir].readable
    THEN [i \in 1..Len(gitignore[dir].lines) |-> MakeRule(gitignore[dir].lines[i])]
    ELSE <<>>

\* the rules of ".git" and of options.ignorePatterns, in that order
GlobalRules ==
    <<MakeRule(<<DotGit>>)>>
    \o [i \in 1..Len(options.ignorePatterns) |-> MakeRule(options.ignorePatterns[i])]

\* C11: in the stack of every call, the first level (made by the call that
\* received an empty stack, the scan root) holds the rule ".git", then
\* options.ignorePatterns, then the root's own .gitignore; every deeper
\* level holds the rules of its directory's own .gitignore and nothing else,
\* so no rule at all when that file is absent or unreadable.
GlobalPatternsAtRootLevelOnly ==
    \A k \in 1..Len(calls) :
        calls[k].newStack # NoRef =>
            LET stack == heap[calls[k].newStack]
            IN  \A j \in 1..Len(stack) :
                    stack[j].ignorer =
                        IF j = 1 THEN GlobalRules \o OwnRules(stack[j].basePath)
                        ELSE OwnRules(stack[j].basePath)

\* C11 witness: with ignorePatterns given, the call on sub, whose
\* .gitignore cannot be read, has a second level without any rule
UnreadableLevelIsEmpty ==
    /\ Len(calls) = 2
    /\ Top.currentPath = SubDir
    /\ Top.newStack # NoRef
    /\ options.ignorePatterns # <<>>
    /\ gitignore[SubDir] = Unreadable(<<Pattern("name")>>)
    /\ Len(heap[Top.newStack]) = 2
    /\ heap[Top.newStack][2].ignorer = <<>>
    /\ Len(heap[Top.newStack][1].ignorer) = 2

\* no ignore declaration anywhere: no .gitignore file, no ignorePatterns
NoDeclarations ==
    /\ options.ignorePatterns = <<>>
    /\ \A d \in AllPaths : ~gitignore[d].exists

NoLinks == \A p \in AllPaths : fs[p] # "link"

ChildNames(n) == {c.name : c \in Range(n.children)}

\* the tree has a node for every directory entry and no other: no node is
\* marked skipped, and the node of a directory is a folder whose children
\* have exactly the names the directory lists
MirrorsDirectories ==
    \A n \in TreeNodes :
        /\ ~IsSkipped(n)
        /\ IsDirectory(fs[n.path]) =>
               (n.type = "folder" /\ HasChildren(n)
                /\ ChildNames(n) = EntryNames(n.path))

\* C12 as stated: for a directory without ignore declarations and without
\* symbolic links, and maxLeaf unset, the node names under each folder are
\* exactly the entry names of the directory, recursively, and no node is
\* marked skipped.
TreeMirrorsDirectory ==
    (Done /\ fs[Root] = "dir" /\ NoDeclarations /\ NoLinks /\ options.maxLeaf = 0)
        => MirrorsDirectories

\* every lstat and readdir succeeds and no directory goes away
NoFailures == \A p \in AllPaths : fs[p] \notin {"err", "nolist", "fleeting"}

\* no entry is named ".git", in letters of either case
NoDotGit ==
    \A p \in AllPaths \ {Root} :
        fs[p] # "none" => FoldCase(Basename(p)) # FoldCase(DotGit)

\* some entry has a name made of dots alone
DotOnlyEntry == \E p \in AllPaths \ {Root} : fs[p] # "none" /\ DotOnly(Basename(p))

\* C12 amended: for a directory that, besides, has no entry named ".git"
\* in letters of either case and on which every lstat and readdir succeeds,
\* the call resolves unless the name of an entry is made of dots alone
\* (then it rejects), and the tree it resolves with mirrors the directory.
TreeMirrorsDirectoryWithoutDotGit ==
    (fs[Root] = "dir" /\ NoDeclarations /\ NoLinks /\ options.maxLeaf = 0
          /\ NoDotGit /\ NoFailures)
        => /\ Done => (MirrorsDirectories /\ ~DotOnlyEntry)
           /\ Rejects => DotOnlyEntry

\* C12 witness: a directory with a directory in it and a file beside it is
\* mirrored
DeepTreeMirrored ==
    /\ Done /\ fs[Root] = "dir" /\ NoDeclarations /\ NoLinks /\ options.maxLeaf = 0
    /\ NoDotGit /\ NoFailures
    /\ NodesAt(Root \o <<"other", "sub">>) # {}
    /\ NodesAt(Join(Root, "name")) # {}
    /\ Len(Tree.children) = 2

----------------------------------------------------------------------------
(* git ls-files -c -o --exclude-standard in the scan root, for a working   *)
(* tree in which no ignored file is tracked and the only exclude files are *)
(* the .gitignore files of the tree.                                       *)

\* the decision of one .gitignore file on a path: "exclude", "include" (a
\* negated pattern matched last) or "none"; the last matching line decides
RECURSIVE GitLastMatch(_, _, _)
GitLastMatch(rules, path, i) ==
    IF i = 0 THEN "none"
    ELSE IF RuleMatches(rules[i], path)
         THEN IF rules[i].negative THEN "include" ELSE "exclude"
         ELSE GitLastMatch(rules, path, i - 1)

\* the .gitignore files from the directory at depth k of p up to the scan
\* root: the deepest file with a matching line decides
RECURSIVE GitExcludedFrom(_, _, _)
GitExcludedFrom(p, isDir, k) ==
    IF k < Len(Root) THEN FALSE
    ELSE LET dir == SubSeq(p, 1, k)
             rel == SubSeq(p, k + 1, Len(p))
             decision == GitLastMatch(OwnRules(dir),
                                      IF isDir THEN DirPath(rel) ELSE FilePath(rel),
                                      Len(OwnRules(dir)))
         IN  IF decision = "exclude" THEN TRUE
             ELSE IF decision = "include" THEN FALSE
             ELSE GitExcludedFrom(p, isDir, k - 1)

GitExcluded(p, isDir) == GitExcludedFrom(p, isDir, Len(p) - 1)

\* git does not descend into .git nor into an excluded directory
GitDescends(dir) ==
    \A k \in (Len(Root) + 1)..Len(dir) :
        /\ dir[k] # DotGit
        /\ ~GitExcluded(SubSeq(dir, 1, k), TRUE)

\* the paths git lists, relative to the scan root: the regular files and
\* symbolic links, .gitignore files included, that are not excluded
GitLsFiles ==
    {Relative(Root, p) :
        p \in {q \in AllPaths \ {Root} :
                  /\ fs[q] \in {"file", "link"}
                  /\ GitDescends(Dirname(q))
                  /\ ~GitExcluded(q, FALSE)}}
    \cup {Relative(Root, Join(d, GitignoreName)) :
            d \in {e \in AllPaths :
                      /\ fs[e] = "dir" /\ gitignore[e].exists
                      /\ GitDescends(e)
                      /\ ~GitExcluded(Join(e, GitignoreName), FALSE)}}

\* collectFiles of the verify script: the paths of the file nodes, relative
\* to the scan root
TreeFiles == {Relative(Root, n.path) : n \in {x \in TreeNodes : x.type = "file"}}

\* C13 as stated: with maxLeaf unset, the paths of the file nodes of the
\* tree of a repository are exactly the paths git ls-files -c -o
\* --exclude-standard lists there.
TreeFilesAreGitFiles ==
    (Done /\ fs[Root] = "dir" /\ options.maxLeaf = 0 /\ options.ignorePatterns = <<>>)
        => TreeFiles = GitLsFiles

\* the regular files among the visible entries of dir
VisibleFiles(dir) == {n \in VisibleEntries(dir) : Lstat(Join(dir, n)) = "file"}

\* C14 as stated: with maxLeaf = N > 0, a visited directory is collapsed
\* exactly when the number of files in it (here: its regular files that no
\* ignore rule excludes; its subdirectories do not count) is greater than N.
CollapsedIffMoreFilesThanMaxLeaf ==
    (Done /\ options.maxLeaf > 0) =>
        \A n \in VisitedFolders :
            (IsSkipped(n) /\ n.skipped = "size")
                <=> Cardinality(VisibleFiles(n.path)) > options.maxLeaf

\* the innermost call is at a place of the code from which a step is
\* defined: one of the seven actions of buildTree is enabled
HasNextStep ==
    /\ Top.pc \in {"lstat", "declare", "readdir", "scan", "decide", "emit", "sort"}
    /\ Top.pc \in {"declare"} => Top.ignoreStack \in 1..Len(heap)
    /\ Top.pc \in {"readdir", "scan", "decide", "emit", "sort"} =>
           Top.newStack \in 1..Len(heap)
    /\ Top.pc = "readdir" => (fs[Top.currentPath] = "nolist"
                              \/ ReaddirOrders(Top.currentPath) # {})
    /\ Top.pc = "scan" => Top.i \in 1..Len(Top.childrenItems)
    /\ Top.pc = "emit" => Top.i \in 1..Len(Top.candidates)

\* C15: buildTree never rejects, whichever of lstat, readFile and readdir
\* fail and at whatever depth: as long as a call is in progress it has a
\* next step, and the top-level call ends by resolving with a tree of file
\* and folder nodes, never with an error.
BuildTreeNeverRejects ==
    /\ Running \/ Done
    /\ Running => HasNextStep
    /\ Done => \A n \in TreeNodes : n.type \in {"file", "folder"}

\* the node of a path on which lstat threw: a file of size 0, without
\* skipped marker and without children
EmptyFileAt(p) ==
    [name |-> Basename(p), path |-> p, type |-> "file", stats |-> [size |-> 0]]

\* the candidates of p's directory that are to have a node: all but the
\* excluded files
SiblingsToShow(p) ==
    {c \in scanned : /\ Dirname(c.path) = Dirname(p)
                     /\ ~(c.isIgnored /\ ~c.stats.isDirectory)}

\* C16: when lstat throws on the path a call was given (the root path, or
\* a subdirectory that was there when its parent was scanned and is gone
\* when it is visited), the call's node is a file node of size 0 without
\* skipped marker and children, and the parent's loop goes on: every other
\* entry of the parent that is to be shown has its node among the parent's
\* children.
LstatFailureIsEmptyFile ==
    Done =>
        /\ fs[Root] = "err" => Tree = EmptyFileAt(Root)
        /\ \A p \in AllPaths \ {Root} :
               (fs[p] = "fleeting"
                /\ \E c \in scanned : c.path = p /\ ~c.isIgnored) =>
                   \A parent \in ParentNodes(p) :
                       HasChildren(parent) =>
                           /\ EmptyFileAt(p) \in Range(parent.children)
                           /\ NodesAt(p) = {EmptyFileAt(p)}
                           /\ \A c \in SiblingsToShow(p) :
                                  \E n \in Range(parent.children) : n.path = c.path

\* C16 witness: in sub, the directory other was gone when visited; its file
\* node has been pushed and the loop is at the entry after it
LoopGoesOnAfterVanishedDirectory ==
    /\ Len(calls) = 2
    /\ Top.currentPath = SubDir
    /\ Top.pc = "emit"
    /\ fs[DeepDir] = "fleeting"
    /\ Top.children = <<EmptyFileAt(DeepDir)>>
    /\ Top.candidates[Top.i].name = "name"

\* a folder node with an empty children sequence and no skipped marker
EmptyFolderAt(p) ==
    [name |-> Basename(p), path |-> p, type |-> "folder", children |-> <<>>]

\* C17: a visited directory on which readdir throws is returned as a folder
\* node with children = <<>> and no skipped marker, whatever maxLeaf is:
\* the node an empty directory of that name is returned as.
UnlistableIsEmptyFolder ==
    Done =>
        \A p \in AllPaths :
            (fs[p] = "nolist" \/ (fs[p] = "dir" /\ EntryNames(p) = {})) =>
                /\ p = Root => Tree = EmptyFolderAt(p)
                /\ \A n \in NodesAt(p) :
                       \/ (IsSkipped(n) /\ n.skipped = "gitignore")
                       \/ n = EmptyFolderAt(p)

\* C17 witness: sub cannot be listed, other is empty, and both are the same
\* kind of node
UnlistableBesideEmpty ==
    /\ Done
    /\ fs[SubDir] = "nolist"
    /\ fs[OtherDir] = "dir" /\ EntryNames(OtherDir) = {}
    /\ NodesAt(SubDir) = {EmptyFolderAt(SubDir)}
    /\ NodesAt(OtherDir) = {EmptyFolderAt(OtherDir)}

Summarized == summary # NoSummary
Summary == summary[1]

\* the entries below the scan root on which lstat throws
FailingEntries == {p \in AllPaths \ {Root} : fs[p] = "err"}

\* the nodes of the tree that are not nodes of such entries
NodesOfOtherEntries == {n \in TreeNodes : n.path \notin FailingEntries}

\* C18: an entry on which lstat throws during its parent's scan has no
\* node, is no candidate (so it is not in the parent's visible count: the
\* parent is collapsed exactly when its other visible entries are more than
\* maxLeaf), and none of the four counters of getSummary counts it.
FailingEntryLeavesNoTrace ==
    Done =>
        /\ \A p \in FailingEntries :
               /\ NodesAt(p) = {}
               /\ \A c \in scanned : c.path # p
               /\ \A parent \in ParentNodes(p) :
                      (IsSkipped(parent) /\ parent.skipped = "size") <=>
                          (options.maxLeaf > 0
                           /\ Cardinality(VisibleEntries(Dirname(p)) \ {Basename(p)})
                                  > options.maxLeaf)
        /\ Summarized =>
               /\ Summary.totalFiles =
                      Cardinality({n \in NodesOfOtherEntries : n.type = "file"})
               /\ Summary.totalFolders =
                      Cardinality({n \in NodesOfOtherEntries : n.type = "folder"})
               /\ Summary.skippedGitignore =
                      Cardinality({n \in NodesOfOtherEntries :
                                      IsSkipped(n) /\ n.skipped = "gitignore"})
               /\ Summary.skippedSize =
                      Cardinality({n \in NodesOfOtherEntries :
                                      IsSkipped(n) /\ n.skipped = "size"})

\* C18 witness: under maxLeaf = 1 the root, with one visible entry and one
\* entry on which lstat throws, is expanded with one child, and the summary
\* counts two nodes
FailingEntryNotCounted ==
    /\ Done /\ Summarized
    /\ options.maxLeaf = 1
    /\ fs[Join(Root, "link")] = "err"
    /\ HasChildren(Tree) /\ Len(Tree.children) = 1
    /\ Summary.totalFiles + Summary.totalFolders = 2

\* the tree of the test "should calculate correct summary"
TestTree ==
    [type |-> "folder",
     children |-> << [type |-> "file"],
                     [type |-> "folder", children |-> <<[type |-> "file"]>>],
                     [type |-> "folder", skipped |-> "gitignore"],
                     [type |-> "folder", skipped |-> "size"] >>]

\* C19: of the tree it is given, getSummary returns the number of folder
\* nodes (the root and the skipped folders included) as totalFolders, the
\* number of file nodes as totalFiles, and the numbers of nodes marked
\* "gitignore" and "size" as skippedGitignore and skippedSize; a skipped
\* folder is in totalFolders and in its skip counter.  Of the test's tree
\* it returns 2 files, 4 folders, 1 and 1.
SummaryCountsNodes ==
    Summarized =>
        /\ Summary.totalFolders = Cardinality({n \in TreeNodes : n.type = "folder"})
        /\ Summary.totalFiles = Cardinality({n \in TreeNodes : n.type = "file"})
        /\ Summary.skippedGitignore =
               Cardinality({n \in TreeNodes : IsSkipped(n) /\ n.skipped = "gitignore"})
        /\ Summary.skippedSize =
               Cardinality({n \in TreeNodes : IsSkipped(n) /\ n.skipped = "size"})
        /\ GetSummary(TestTree) =
               [totalFiles |-> 2, totalFolders |-> 4,
                skippedGitignore |-> 1, skippedSize |-> 1]

\* C19 witness: the summary of a root with the stub of .git and a folder
\* collapsed for size: three folders, one skipped of each kind
BothSkipsCountedAsFolders ==
    /\ Summarized
    /\ Summary = [totalFiles |-> 0, totalFolders |-> 3,
                  skippedGitignore |-> 1, skippedSize |-> 1]

\* a is before b among the children of a folder: folders before files, and
\* within a type by localeCompare of the names
Precedes(a, b) ==
    \/ a.type = "folder" /\ b.type = "file"
    \/ a.type = b.type /\ LocaleCompare(a.name, b.name) < 0

\* The nodes of a set with distinct names, as the sequence in that order;
\* of two nodes neither of which is before the other, the one whose name
\* is less by code units comes first (as the sort leaves them when the
\* directory is listed in ascending order).
RECURSIVE InOrder(_)
InOrder(S) ==
    IF S = {} THEN <<>>
    ELSE LET first == CHOOSE x \in S : \A y \in S \ {x} :
                          \/ Precedes(x, y)
                          \/ ~Precedes(y, x) /\ CodePointCompare(x.name, y.name) < 0
         IN  <<first>> \o InOrder(S \ {first})

\* The tree of the directory at p as the filesystem and the options
\* determine it: the tree of the run in which every directory is listed in
\* ascending order.
RECURSIVE ExpectedNode(_), ExpectedChildren(_)
ExpectedNode(p) ==
    IF fs[p] \in {"none", "err", "link", "fleeting"} THEN EmptyFileAt(p)
    ELSE IF fs[p] = "file"
    THEN [name |-> Basename(p), path |-> p, type |-> "file",
          stats |-> [size |-> SizeOf(p)]]
    ELSE IF fs[p] = "nolist" THEN EmptyFolderAt(p)
    ELSE IF /\ options.maxLeaf \notin {0, NaN}
            /\ Cardinality(VisibleEntries(p)) > options.maxLeaf
    THEN [name |-> Basename(p), path |-> p, type |-> "folder", skipped |-> "size"]
    ELSE [name |-> Basename(p), path |-> p, type |-> "folder",
          children |-> InOrder(ExpectedChildren(p))]
ExpectedChildren(p) ==
    UNION { LET q == Join(p, n)
                kind == Lstat(q)
                isDir == kind \in {"dir", "nolist", "fleeting"}
            IN  IF kind \in {"err", "link"} THEN {}
                ELSE IF ExcludedBySomeLevel(q, isDir)
                THEN IF isDir
                     THEN {[name |-> n, path |-> q, type |-> "folder",
                            skipped |-> "gitignore"]}
                     ELSE {}
                ELSE IF isDir THEN {ExpectedNode(q)}
                ELSE {[name |-> n, path |-> q, type |-> "file",
                       stats |-> [size |-> SizeOf(q)]]}
          : n \in EntryNames(p) }

\* C20: the tree the top-level call returns is the one the filesystem and
\* the options determine, whatever the order in which readdir enumerated
\* each directory: a run returns the tree that the run with every
\* directory listed in ascending order returns, so that two runs on an
\* unchanged filesystem with the same options return identical trees.
SameTreeWhateverListingOrder ==
    Done => Tree = ExpectedNode(Root)

\* the chain of calls in progress goes down the directories of the
\* filesystem, one level a call, and no call is on a symbolic link
CallsGoDownDirectories ==
    \A k \in 1..Len(calls) :
        /\ calls[k].currentPath \in AllPaths
        /\ k > 1 => /\ Dirname(calls[k].currentPath) = calls[k - 1].currentPath
                    /\ fs[calls[k].currentPath] # "link"

\* the entries at or below p, and the .gitignore files of those that are
\* directories
Below(p) ==
    {q \in AllPaths : /\ Len(q) >= Len(p) /\ SubSeq(q, 1, Len(p)) = p
                      /\ (q = p \/ fs[q] # "none")}
GitignoresBelow(p) == {q \in Below(p) : gitignore[q].exists}

\* An upper bound on the steps of a call on p: five for the call itself
\* (lstat, the matcher, readdir, the decision, the sort), two (scan, emit)
\* for each entry it lists, and the steps of a call on each entry; summed
\* over the entries at or below p, with seven for each .gitignore file.
Budget(p) ==
    IF p \notin AllPaths THEN 5
    ELSE 7 * Cardinality(Below(p)) + 7 * Cardinality(GitignoresBelow(p)) - 2

\* the steps the candidates from index i on may still take
RECURSIVE EmitBudget(_, _)
EmitBudget(candidates, i) ==
    IF i > Len(candidates) THEN 0
    ELSE 1 + Budget(candidates[i].path) + EmitBudget(candidates, i + 1)

\* the steps call k may still take itself; a call that waits for a
\* recursive call has handed its current candidate to that call
Remaining(k) ==
    LET call == calls[k]
        B == Budget(call.currentPath)
        n == Cardinality(EntryNames(call.currentPath))
    IN  CASE call.pc = "lstat" -> B
          [] call.pc = "declare" -> B - 1
          [] call.pc = "readdir" -> B - 2
          [] call.pc = "scan" -> B - 2 - call.i
          [] call.pc = "decide" -> B - 3 - n
          [] call.pc = "emit" ->
                1 + EmitBudget(call.candidates,
                               IF k < Len(calls) THEN call.i + 1 ELSE call.i)
          [] call.pc = "sort" -> 1

RECURSIVE RemainingFrom(_)
RemainingFrom(k) ==
    IF k > Len(calls) THEN 0 ELSE Remaining(k) + RemainingFrom(k + 1)

\* the variant: the steps the run may still take, getSummary included
Variant == RemainingFrom(1) + (IF summary = NoSummary THEN 1 ELSE 0)

\* C21: buildTree terminates on every filesystem of the model, whose
\* symbolic links all point to an ancestor: every step leaves the chain of
\* calls going down the directories of the filesystem, with no call on a
\* symbolic link, and takes the run strictly closer to its end (a natural
\* number that bounds the remaining steps decreases), so that no run has
\* infinitely many steps.
TerminatesDespiteLinkCycles ==
    [][/\ CallsGoDownDirectories'
       /\ Variant' >= 0
       /\ Variant' < Variant]_vars

\* C21 witness: the scan of a directory that holds a link to itself has
\* ended, and the tree has no node for the link
LinkCycleScanned ==
    /\ Done
    /\ fs[Join(Root, "link")] = "link"
    /\ LinkTarget(Join(Root, "link")) = Root
    /\ NodesAt(Join(Root, "link")) = {}
    /\ \E n \in TreeNodes : n.path = SubDir /\ HasChildren(n)

\* the directories strictly between the scan root and q, q excluded
StrictlyAbove(q) == {SubSeq(q, 1, k) : k \in (Len(Root) + 1)..(Len(q) - 1)}

\* dir is collapsed for size when visited
IsCollapsed(dir) ==
    /\ fs[dir] = "dir" /\ options.maxLeaf > 0
    /\ Cardinality(VisibleEntries(dir)) > options.maxLeaf

\* C24: no lstat, readdir or read of a .gitignore is ever made on a path
\* strictly inside a directory that an ignore rule excludes, on a path
\* through a symbolic link, or on a path below the immediate entries of a
\* directory that is collapsed for size.
NoOperationInsidePruned ==
    \A t \in touched :
        /\ \A d \in StrictlyAbove(t[2]) :
               /\ fs[d] # "link"
               /\ ~(IsDirectory(fs[d]) /\ ExcludedBySomeLevel(d, TRUE))
        /\ \A c \in StrictlyAbove(t[2]) \cup {Root} :
               Len(t[2]) >= Len(c) + 2 => ~IsCollapsed(c)

\* C24 witness: the scan has ended; .git, which has an entry, and a link to
\* the scanned directory were both stat-ed as entries of the root, and the
\* root's own .gitignore was read
PrunedLeftAlone ==
    /\ Done
    /\ fs[Root \o <<".git", "name">>] = "file"
    /\ <<"lstat", Join(Root, DotGit)>> \in touched
    /\ fs[Join(Root, "link")] = "link"
    /\ <<"lstat", Join(Root, "link")>> \in touched
    /\ <<"readFile", Join(Root, GitignoreName)>> \in touched

\* the place of the entry name in a listing
IndexOf(items, name) == CHOOSE n \in 1..Len(items) : items[n] = name

\* every entry listed for the call has been stat-ed, every entry the scan
\* keeps is a candidate, the candidates stand in listing order, and the
\* maxLeaf decision was to expand
EntriesClassified(call) ==
    /\ \A n \in 1..Len(call.childrenItems) :
           LET itemPath == Join(call.currentPath, call.childrenItems[n])
           IN  /\ <<"lstat", itemPath>> \in touched
               /\ ~Dropped(Lstat(itemPath)) =>
                      \E a \in 1..Len(call.candidates) :
                          call.candidates[a].path = itemPath
    /\ \A a, b \in 1..Len(call.candidates) :
           a < b => IndexOf(call.childrenItems, call.candidates[a].name)
                        < IndexOf(call.childrenItems, call.candidates[b].name)
    /\ ~TooMany(options.maxLeaf, VisibleCount(call.candidates))

\* a call on the directory dir has been made
Started(dir) ==
    \/ \E k \in 1..Len(calls) : calls[k].currentPath = dir
    \/ <<"readFile", Join(dir, GitignoreName)>> \in touched
    \/ <<"readdir", dir>> \in touched

\* C25: a call has a call below it only once all its entries are stat-ed
\* and classified and the maxLeaf decision is taken; the call below is the
\* one for its current candidate, the subdirectories before that candidate
\* in listing order are finished, and none after it has been started; the
\* calls in progress form one chain, so no two siblings are in progress.
SiblingsOneAfterAnother ==
    \A k \in 1..Len(calls) :
        LET call == calls[k]
        IN  /\ k < Len(calls) =>
                   /\ call.pc = "emit"
                   /\ EntriesClassified(call)
                   /\ calls[k + 1].currentPath = call.candidates[call.i].path
                   /\ Dirname(calls[k + 1].currentPath) = call.currentPath
            /\ call.pc \in {"lstat", "declare", "readdir", "scan", "decide"} =>
                   \A item \in EntryNames(call.currentPath) :
                       ~Started(Join(call.currentPath, item))
            /\ call.pc = "emit" =>
                   \A j \in 1..Len(call.candidates) :
                       LET cand == call.candidates[j]
                       IN  /\ j > call.i => ~Started(cand.path)
                           /\ j < call.i /\ Descends(cand) =>
                                  /\ \A m \in 1..Len(calls) :
                                         calls[m].currentPath # cand.path
                                  /\ \E n \in 1..Len(call.children) :
                                         call.children[n].path = cand.path

\* C25 witness: the call for a second subdirectory is in progress, the node
\* of the first is with the caller, and a third entry was stat-ed before
SecondSiblingUnderConstruction ==
    /\ Len(calls) = 2
    /\ calls[1].i = 2
    /\ Descends(calls[1].candidates[1])
    /\ Len(calls[1].children) = 1
    /\ Len(calls[1].childrenItems) = 3

\* the children of the node that are not stubs of ignored directories
ChildrenOtherThanStubs(n) ==
    {i \in 1..Len(n.children) :
        ~(IsSkipped(n.children[i]) /\ n.children[i].skipped = "gitignore")}

\* C27: with maxLeaf = N > 0, every folder node that has a children field
\* has at most N children that are not stubs of ignored directories.
ExpandedWithinMaxLeaf ==
    (Done /\ options.maxLeaf > 0) =>
        \A n \in TreeNodes :
            HasChildren(n) =>
                Cardinality(ChildrenOtherThanStubs(n)) <= options.maxLeaf

\* C27 witness: an expanded folder with exactly maxLeaf children that are
\* not stubs, and a stub of an ignored directory on top of them
StubOnTopOfMaxLeaf ==
    /\ Done /\ options.maxLeaf > 0
    /\ \E n \in TreeNodes :
           /\ HasChildren(n)
           /\ Cardinality(ChildrenOtherThanStubs(n)) = options.maxLeaf
           /\ Len(n.children) > options.maxLeaf

\* C28: when maxLeaf is 0 or NaN, no node of the tree is collapsed for size.
NoTruncationWithoutMaxLeaf ==
    (Done /\ options.maxLeaf \in {0, NaN}) =>
        \A n \in TreeNodes : ~(IsSkipped(n) /\ n.skipped = "size")

\* C28 witness: maxLeaf is NaN and the root is expanded with three entries
ExpandedWithNaN ==
    /\ Done /\ options.maxLeaf = NaN
    /\ options \in {MainOptions(args) : args \in CommandLines}
    /\ HasChildren(Tree) /\ Len(Tree.children) = 3

\* the tree the merged-matcher buildTree returns for the same filesystem
MergedTree == MergedBuildTree(Root, <<>>)

\* <root>/sub/name is there and the only declaration is the root's sub/name
SubNameDeclaredAtRoot ==
    /\ OnlyRootDeclaresSubName /\ options.maxLeaf = 0
    /\ fs[Root] = "dir" /\ fs[SubDir] = "dir"
    /\ fs[Join(SubDir, "name")] \in {"file", "dir"}

\* C26: with the root declaration sub/name, the rule-stack buildTree
\* excludes <root>/sub/name (no node, or the stub of an ignored directory),
\* the merged-matcher buildTree has an ordinary node for it, and the two
\* trees differ.
MergedMatcherIsNotEquivalent ==
    (Done /\ SubNameDeclaredAtRoot) =>
        /\ \A n \in NodesAt(Join(SubDir, "name")) :
               IsSkipped(n) /\ n.skipped = "gitignore"
        /\ \E n \in NodesOf(MergedTree) :
               n.path = Join(SubDir, "name") /\ ~IsSkipped(n)
        /\ Tree # MergedTree

\* C26 witness: the file <root>/sub/name is in the merged-matcher tree and
\* not in the tree returned, which has the file <root>/name
SubNameInMergedTreeOnly ==
    /\ Done /\ SubNameDeclaredAtRoot
    /\ fs[Join(SubDir, "name")] = "file"
    /\ fs[Join(Root, "name")] = "file"
    /\ NodesAt(Join(SubDir, "name")) = {}
    /\ NodesAt(Join(Root, "name")) # {}
    /\ \E n \in NodesOf(MergedTree) : n.path = Join(SubDir, "name")

-----------------------------------------------------------------------------
(* The issue creators: GitHubIssueCreator (a token from the environment),  *)
(* IssueCreatorDevice (device authorization) and IssueCreatorJWT (an       *)
(* installation token got with a JWT).  Every command is a new process     *)
(* with a new creator object; the keychain outlives the processes.  A      *)
(* step is the code between two awaits that matter; GitHub's answers and   *)
(* the user's answers to prompts are chosen freely.                        *)

MaxRuns == 3     \* commands run one after another
MaxPolls == 3    \* poll requests of one authorization
MaxInstallations == 2   \* installations of the GitHub App

\* part_001 line 192: the seconds added to the interval after slow_down
SlowDownSeconds == 5

\* the keychain of the service, by account, with no password stored
EmptyKeychain == [a \in {"token", "client-id", "private-key-path"} |-> ""]

\* the errors thrown
RepoFormatError == "Repo must be in format \"owner/repo\""
TokenRequired == "GITHUB_TOKEN environment variable is required"
PollingFailed == "Token polling failed"
AuthorizationExpired == "Authorization expired. Please try again."
AuthorizationDenied == "Authorization denied by user."
UnexpectedError == "Unexpected error"

\* the requests sent
DeviceCodeRequest == "POST github.com/login/device/code"
AccessTokenRequest == "POST github.com/login/oauth/access_token"
InstallationsRequest == "GET /app/installations"
RepositoriesRequest == "GET /installation/repositories"
InstallationTokenRequest == "POST /app/installations/access_tokens"
RepositoryRequest == "GET /repos/owner/repo"
IssuesRequest == "POST /repos/owner/repo/issues"
PublicRepositoriesRequest == "GET /users/owner/repos"

\* the other events of a run
Authorize == "authorize"
PromptClientId == "prompt: Enter GitHub App Client ID"
PromptKeyPath == "prompt: Enter path to GitHub App private key"
SetPassword(account) ==
    CASE account = "token" -> "setPassword token"
      [] account = "client-id" -> "setPassword client-id"
      [] account = "private-key-path" -> "setPassword private-key-path"

\* the repo arguments: o/r, o/r/x, o, o/, /r, / and the empty string
RepoArguments ==
    { <<"o", "/", "r">>, <<"o", "/", "r", "/", "x">>, <<"o">>, <<"o", "/">>,
      <<"/", "r">>, <<"/">>, <<>> }

\* const [owner, repo] = params.repo.split('/'): the first two parts, <<>>
\* for a part that is empty or not there; github-issue-creator.ts line 31,
\* part_001 line 259, part_000 line 321: !owner || !repo is false
RepoIsValid(params) ==
    LET owner == Before(params, "/")
        repo == IF Includes(params, "/") THEN SecondPart(params, "/") ELSE <<>>
    IN  owner # <<>> /\ repo # <<>>

\* what GitHub answers to a poll: a status that is not OK, a token, or an
\* error value
PollResponses ==
    {"not ok", "access_token", "authorization_pending", "slow_down",
     "expired_token", "access_denied", "incorrect_device_code"}

\* a process that has not started or has ended with error (or with "" when
\* it succeeded)
Ended(error) ==
    [pc |-> "done", command |-> "", error |-> error, repo |-> <<>>,
     clientId |-> "", privateKeyPath |-> "", token |-> "", answer |-> "",
     deletes |-> <<>>, caught |-> FALSE, installations |-> 0,
     interval |-> 0, polls |-> 0, response |-> "", waited |-> 0]

\* the constructors: the fields of the new creator, and the command main
\* runs on it
NewRun(command, pc, repo) ==
    [Ended("") EXCEPT
        !.pc = pc, !.command = command, !.repo = repo,
        !.clientId = env.clientId, !.privateKeyPath = env.privateKeyPath,
        !.token = IF creator = "token" THEN env.token ELSE ""]

AtShell == run.pc = "done" /\ Len(commands) < MaxRuns

\* The process ends with the error thrown.  listAllRepositoriesWithAccessMethod
\* catches what is thrown inside its try block (part_000 lines 523-575) and
\* goes on to its summary: the process ends without error.
Throw(error) ==
    run' = [run EXCEPT !.pc = "done", !.error = IF run.caught THEN "" ELSE error]

\* main prints the usage and exits with code 1
Usage == "usage"

\* the least args.length main asks of the create command:
\* github-issue-creator.ts line 72 (repo, title, body), part_001 line 353
\* (create, repo, title, body and a label), part_000 line 720
MinArguments(which) ==
    CASE which = "token" -> 3
      [] which = "device" -> 5
      [] which = "jwt" -> 4

\* faulty variant: the repo is looked at before the token is
ValidateFirst(which) == "validate"

\* where createIssue starts: github-issue-creator.ts line 29; part_001 line
\* 255 and part_000 line 317
FirstStep(which) == IF which = "token" THEN "validate" ELSE "getValidToken"

\* main, command create, given one argument too few or just enough: with
\* too few the usage is printed and no creator is made; else new creator,
\* createIssue(repo, ...)
Create ==
    /\ AtShell
    /\ \E repo \in RepoArguments :
          \E count \in {MinArguments(creator) - 1, MinArguments(creator)} :
             IF count < MinArguments(creator) THEN run' = Ended(Usage)
             ELSE IF creator = "token" /\ env.token = ""
             THEN run' = Ended(TokenRequired)
             ELSE run' = NewRun("create", FirstStep(creator), repo)
    /\ trace' = <<>>
    /\ commands' = Append(commands, "create")
    /\ UNCHANGED <<creator, env, keychain, expired>>
    /\ UNCHANGED treeVars

\* main begins a command that deletes the passwords of accounts, one after
\* another
Deleting(command, accounts) ==
    /\ AtShell
    /\ run' = [NewRun(command, "deletePassword", <<>>) EXCEPT !.deletes = accounts]
    /\ trace' = <<>>
    /\ commands' = Append(commands, command)
    /\ UNCHANGED <<creator, env, keychain, expired>>
    /\ UNCHANGED treeVars

\* await keytar.deletePassword(serviceName, account): the next of the
\* command's accounts is deleted
DeletePassword(command) ==
    /\ run.pc = "deletePassword" /\ run.command = command
    /\ LET account == Head(run.deletes)
           rest == Tail(run.deletes)
       IN  /\ keychain' = [keychain EXCEPT ![account] = ""]
           /\ expired' = IF account = "token" THEN FALSE ELSE expired
           /\ run' = [run EXCEPT !.deletes = rest,
                                 !.pc = IF rest = <<>> THEN "done" ELSE @]
    /\ UNCHANGED <<creator, env, trace, commands>>
    /\ UNCHANGED treeVars

\* main, command logout: part_001 lines 295-299, part_000 lines 413-418
Logout ==
    \/ /\ creator = "device"
       /\ Deleting("logout", <<"token", "client-id">>)
    \/ /\ creator = "jwt"
       /\ Deleting("logout", <<"token", "client-id", "private-key-path">>)
    \/ DeletePassword("logout")

\* main, command reset-id: part_001 lines 301-304
ResetClientId ==
    \/ /\ creator = "device"
       /\ Deleting("reset", <<"client-id">>)
    \/ /\ creator = "device"
       /\ DeletePassword("reset")

\* main, command reset-credentials: part_000 lines 420-424
ResetCredentials ==
    \/ /\ creator = "jwt"
       /\ Deleting("reset", <<"client-id", "private-key-path">>)
    \/ /\ creator = "jwt"
       /\ DeletePassword("reset")

\* main begins a command of the JWT creator that lists repositories; the
\* commands that take an owner print their usage when it is not given
Listing(command, pc, counts) ==
    /\ AtShell /\ creator = "jwt"
    /\ \E count \in counts :
          IF count < 2 THEN run' = Ended(Usage)
          ELSE run' = NewRun(command, pc, <<>>)
    /\ trace' = <<>>
    /\ commands' = Append(commands, command)
    /\ UNCHANGED <<creator, env, keychain, expired>>
    /\ UNCHANGED treeVars

\* between two commands the token in the keychain expires
TokenExpires ==
    /\ AtShell /\ keychain["token"] # "" /\ ~expired
    /\ expired' = TRUE
    /\ UNCHANGED <<creator, env, keychain, run, trace, commands>>
    /\ UNCHANGED treeVars

\* where the process goes on when getValidToken has returned the token:
\* createIssue (part_001 line 257, part_000 line 319) or
\* listPublicRepositories (part_000 line 388)
AfterGetValidToken ==
    IF run.command = "create" THEN "validate" ELSE "listPublicRepositories"

\* part_001 lines 244-252, part_000 lines 286-297: the stored token is
\* returned as it is; without one the authorization begins
GetValidToken ==
    /\ run.pc = "getValidToken"
    /\ IF keychain["token"] # ""
       THEN /\ run' = [run EXCEPT !.token = keychain["token"],
                                  !.pc = AfterGetValidToken]
            /\ UNCHANGED trace
       ELSE /\ run' = [run EXCEPT !.pc = "getClientId"]
            /\ trace' = Append(trace, Authorize)
    /\ UNCHANGED <<creator, env, keychain, expired, commands>>
    /\ UNCHANGED treeVars

\* part_001 lines 103-124, part_000 lines 111-132: the field, else the
\* password of the keychain (part_001 line 108), else the answer to a prompt
\* (line 114), which is stored in the keychain (line 119) and then in the
\* field
GetClientId ==
    LET next == IF creator = "device" THEN "initiateDeviceAuth"
                ELSE "getPrivateKeyPath"
    IN  \/ /\ run.pc = "getClientId"
           /\ IF run.clientId # ""
              THEN /\ run' = [run EXCEPT !.pc = next]
                   /\ UNCHANGED trace
              ELSE IF keychain["client-id"] # ""
              THEN /\ run' = [run EXCEPT !.clientId = keychain["client-id"],
                                         !.pc = next]
                   /\ UNCHANGED trace
              ELSE /\ run' = [run EXCEPT !.pc = "promptClientId"]
                   /\ trace' = Append(trace, PromptClientId)
           /\ UNCHANGED <<creator, env, keychain, expired, commands>>
           /\ UNCHANGED treeVars
        \/ /\ run.pc = "promptClientId"
           /\ \E answer \in {"", "Iv1.client"} :
                 IF answer = "" THEN Throw("Client ID is required")
                 ELSE run' = [run EXCEPT !.answer = answer, !.pc = "setClientId"]
           /\ UNCHANGED <<creator, env, keychain, expired, trace, commands>>
           /\ UNCHANGED treeVars
        \/ /\ run.pc = "setClientId"
           /\ keychain' = [keychain EXCEPT !["client-id"] = run.answer]
           /\ run' = [run EXCEPT !.clientId = run.answer, !.answer = "", !.pc = next]
           /\ trace' = Append(trace, SetPassword("client-id"))
           /\ UNCHANGED <<creator, env, expired, commands>>
           /\ UNCHANGED treeVars

\* where the process goes on when getPrivateKeyPath has returned and the
\* JWT is made: getInstallationToken (part_000 line 306), or the request
\* for the installations of listRepositories (line 435) and of
\* listAllRepositoriesWithAccessMethod (line 528)
AfterGenerateJWT ==
    IF run.command = "list-repos" \/ run.caught THEN "listInstallations"
    ELSE "getInstallations"

\* part_000 lines 134-162: the field, else the password of the keychain
\* (line 139), else the answer to a prompt (line 145), which is stored in
\* the keychain (line 157) when the file is there; the file missing.pem is
\* not there
GetPrivateKeyPath ==
    \/ /\ run.pc = "getPrivateKeyPath"
       /\ IF run.privateKeyPath # ""
          THEN /\ run' = [run EXCEPT !.pc = AfterGenerateJWT]
               /\ UNCHANGED trace
          ELSE IF keychain["private-key-path"] # ""
          THEN /\ run' = [run EXCEPT !.privateKeyPath = keychain["private-key-path"],
                                     !.pc = AfterGenerateJWT]
               /\ UNCHANGED trace
          ELSE /\ run' = [run EXCEPT !.pc = "promptPrivateKeyPath"]
               /\ trace' = Append(trace, PromptKeyPath)
       /\ UNCHANGED <<creator, env, keychain, expired, commands>>
       /\ UNCHANGED treeVars
    \/ /\ run.pc = "promptPrivateKeyPath"
       /\ \E answer \in {"", "missing.pem", "key.pem"} :
             IF answer = "" THEN Throw("Private key path is required")
             ELSE IF answer = "missing.pem" THEN Throw("Private key file not found")
             ELSE run' = [run EXCEPT !.answer = answer,
                                        !.pc = "setPrivateKeyPath"]
       /\ UNCHANGED <<creator, env, keychain, expired, trace, commands>>
       /\ UNCHANGED treeVars
    \/ /\ run.pc = "setPrivateKeyPath"
       /\ keychain' = [keychain EXCEPT !["private-key-path"] = run.answer]
       /\ run' = [run EXCEPT !.privateKeyPath = run.answer, !.answer = "",
                             !.pc = AfterGenerateJWT]
       /\ trace' = Append(trace, SetPassword("private-key-path"))
       /\ UNCHANGED <<creator, env, expired, commands>>
       /\ UNCHANGED treeVars

\* part_001 lines 126-156 and 219-236: the device code is asked for; the
\* answer has the status 404 or another status that is not OK, or it is OK
\* and asks for an interval of 1 or 5 seconds between the polls
InitiateDeviceAuth ==
    /\ run.pc = "initiateDeviceAuth"
    /\ trace' = Append(trace, DeviceCodeRequest)
    /\ \/ \E status \in {404, 500} :
             IF status = 404
             THEN Throw("Device Flow not enabled for this GitHub App. Please check that \"Enable Device Flow\" is checked in your GitHub App settings.")
             ELSE Throw("Device auth initiation failed")
       \/ \E interval \in {1, 5} :
             run' = [run EXCEPT !.interval = interval, !.pc = "pollForToken"]
    /\ UNCHANGED <<creator, env, keychain, expired, commands>>
    /\ UNCHANGED treeVars

\* faulty variant: the interval, whatever the error
WaitInterval(error, interval) == interval

\* part_001 lines 186-194: the seconds waited before the next request
WaitSeconds(error, interval) ==
    IF error = "slow_down" THEN interval + SlowDownSeconds ELSE interval

\* part_001 lines 161-205: one turn of the loop of pollForToken: a request
\* and what is done with the response
PollForToken ==
    /\ run.pc = "pollForToken" /\ run.polls < MaxPolls
    /\ trace' = Append(trace, AccessTokenRequest)
    /\ \E response \in PollResponses :
          LET polled == [run EXCEPT !.polls = @ + 1, !.response = response]
          IN  CASE response = "not ok" ->
                       run' = [polled EXCEPT !.pc = "done", !.error = PollingFailed]
                [] response = "access_token" ->
                       run' = [polled EXCEPT !.token = "ghu_token", !.pc = "storeToken"]
                [] response \in {"authorization_pending", "slow_down"} ->
                       run' = [polled EXCEPT
                                  !.waited = WaitSeconds(response, run.interval)]
                [] response = "expired_token" ->
                       run' = [polled EXCEPT !.pc = "done", !.error = AuthorizationExpired]
                [] response = "access_denied" ->
                       run' = [polled EXCEPT !.pc = "done", !.error = AuthorizationDenied]
                [] OTHER ->
                       run' = [polled EXCEPT !.pc = "done", !.error = UnexpectedError]
    /\ UNCHANGED <<creator, env, keychain, expired, commands>>
    /\ UNCHANGED treeVars

\* part_001 lines 208-210 and 238-241, part_000 lines 272 and 278-280:
\* storeToken puts the token in the keychain, and the token is returned
StoreToken ==
    /\ run.pc = "storeToken"
    /\ keychain' = [keychain EXCEPT !["token"] = run.token]
    /\ expired' = FALSE
    /\ trace' = Append(trace, SetPassword("token"))
    /\ run' = [run EXCEPT !.pc = AfterGetValidToken]
    /\ UNCHANGED <<creator, env, commands>>
    /\ UNCHANGED treeVars

\* part_000 lines 204-276: the installations are asked for (line 208), the
\* repositories of the first (line 235), then its token (line 253), which
\* is to be stored.  The request for the repositories is answered with a
\* status that is not OK, which is passed over, with a body that has the
\* repositories, or with a body without them, on which line 246 throws.
GetInstallationToken ==
    \/ /\ run.pc = "getInstallations"
       /\ trace' = Append(trace, InstallationsRequest)
       /\ \E installations \in {"not ok", "none", "some"} :
             CASE installations = "not ok" -> Throw("Failed to get installations")
               [] installations = "none" -> Throw("No installations found.")
               [] OTHER -> run' = [run EXCEPT !.pc = "getRepositories"]
       /\ UNCHANGED <<creator, env, keychain, expired, commands>>
       /\ UNCHANGED treeVars
    \/ /\ run.pc = "getRepositories"
       /\ trace' = Append(trace, RepositoriesRequest)
       /\ \E response \in {"not ok", "repositories", "no repositories"} :
             IF response = "no repositories"
             THEN Throw("Cannot read properties of undefined (reading 'forEach')")
             ELSE run' = [run EXCEPT !.pc = "getAccessToken"]
       /\ UNCHANGED <<creator, env, keychain, expired, commands>>
       /\ UNCHANGED treeVars
    \/ /\ run.pc = "getAccessToken"
       /\ trace' = Append(trace, InstallationTokenRequest)
       /\ \E ok \in BOOLEAN :
             IF ok THEN run' = [run EXCEPT !.token = "ghs_token", !.pc = "storeToken"]
             ELSE Throw("Failed to get installation token")
       /\ UNCHANGED <<creator, env, keychain, expired, commands>>
       /\ UNCHANGED treeVars

\* github-issue-creator.ts lines 29-33, part_001 lines 257-261, part_000
\* lines 319-323
ValidateRepo ==
    /\ run.pc = "validate"
    /\ IF RepoIsValid(run.repo)
       THEN run' = [run EXCEPT !.pc = IF creator = "jwt" THEN "testRepository"
                                      ELSE "postIssue"]
       ELSE Throw(RepoFormatError)
    /\ UNCHANGED <<creator, env, keychain, expired, trace, commands>>
    /\ UNCHANGED treeVars

\* GitHub accepts the token the process holds: never one that has expired
Accepted(ok) == ok /\ ~(creator \in {"device", "jwt"} /\ expired)

\* part_000 lines 325-347
TestRepositoryAccess ==
    /\ run.pc = "testRepository"
    /\ trace' = Append(trace, RepositoryRequest)
    /\ \E ok \in BOOLEAN :
          IF Accepted(ok) THEN run' = [run EXCEPT !.pc = "postIssue"]
          ELSE Throw("Cannot access repository")
    /\ UNCHANGED <<creator, env, keychain, expired, commands>>
    /\ UNCHANGED treeVars

\* github-issue-creator.ts lines 43-64, part_001 lines 271-292, part_000
\* lines 361-382
PostIssue ==
    /\ run.pc = "postIssue"
    /\ trace' = Append(trace, IssuesRequest)
    /\ \E ok \in BOOLEAN :
          IF Accepted(ok) THEN run' = [run EXCEPT !.pc = "done"]
          ELSE Throw("Failed to create issue: GitHub API Error")
    /\ UNCHANGED <<creator, env, keychain, expired, commands>>
    /\ UNCHANGED treeVars

\* part_000 lines 385-411: main's command list-public (lines 668-692)
\* begins; with the token of getValidToken the public repositories of the
\* owner are asked for.  listAllRepositoriesWithAccessMethod goes on, with
\* what it throws from here on caught, to the client id (line 524).
ListPublicRepositories ==
    \/ Listing("list-public", "getValidToken", {1, 2})
    \/ /\ run.pc = "listPublicRepositories"
       /\ trace' = Append(trace, PublicRepositoriesRequest)
       /\ \E ok \in BOOLEAN :
             IF ~Accepted(ok)
             THEN Throw("Failed to fetch repositories: GitHub API Error")
             ELSE IF run.command = "list-all"
             THEN run' = [run EXCEPT !.caught = TRUE, !.pc = "getClientId"]
             ELSE run' = [run EXCEPT !.pc = "done"]
       /\ UNCHANGED <<creator, env, keychain, expired, commands>>
       /\ UNCHANGED treeVars

\* the installations left to the loop
NextInstallation(left) ==
    run' = [run EXCEPT !.installations = left,
                       !.pc = IF left = 0 THEN "done" ELSE "listInstallationToken"]

\* The loop over the installations (part_000 lines 456-512 and 539-571):
\* the token of the installation is asked for and, with the token, its
\* repositories.  Neither the token nor the repositories are stored.
ListInstallation ==
    \/ /\ run.pc = "listInstallationToken"
       /\ trace' = Append(trace, InstallationTokenRequest)
       /\ \E ok \in BOOLEAN :
             IF ok THEN run' = [run EXCEPT !.pc = "listInstallationRepositories"]
             ELSE NextInstallation(run.installations - 1)
       /\ UNCHANGED <<creator, env, keychain, expired, commands>>
       /\ UNCHANGED treeVars
    \/ /\ run.pc = "listInstallationRepositories"
       /\ trace' = Append(trace, RepositoriesRequest)
       /\ NextInstallation(run.installations - 1)
       /\ UNCHANGED <<creator, env, keychain, expired, commands>>
       /\ UNCHANGED treeVars

\* part_000 lines 426-513: main's command list-repos (lines 662-666)
\* begins with the client id; with the JWT the installations are asked for,
\* and the token and repositories of each of them
ListRepositories ==
    \/ Listing("list-repos", "getClientId", {2})
    \/ /\ run.pc = "listInstallations" /\ run.command = "list-repos"
       /\ trace' = Append(trace, InstallationsRequest)
       /\ \/ Throw("Failed to get installations")
          \/ \E found \in 0..MaxInstallations : NextInstallation(found)
       /\ UNCHANGED <<creator, env, keychain, expired, commands>>
       /\ UNCHANGED treeVars
    \/ /\ run.command = "list-repos"
       /\ ListInstallation

\* part_000 lines 515-620: main's command list-all (lines 694-705) begins
\* with listPublicRepositories; then, with the JWT, the installations are
\* asked for, and the token and repositories of the owner's installation
\* when there is one; an answer that is not OK is passed over
ListAllRepositoriesWithAccessMethod ==
    \/ Listing("list-all", "getValidToken", {1, 2})
    \/ /\ run.pc = "listInstallations" /\ run.command = "list-all"
       /\ trace' = Append(trace, InstallationsRequest)
       /\ \E found \in {0, 1} : NextInstallation(found)
       /\ UNCHANGED <<creator, env, keychain, expired, commands>>
       /\ UNCHANGED treeVars
    \/ /\ run.command = "list-all"
       /\ ListInstallation

\* the environments of the three creators
Environments(which) ==
    CASE which = "token" ->
             {[token |-> t, clientId |-> "", privateKeyPath |-> ""] :
                 t \in {"", "ghp_token"}}
      [] which = "device" ->
             {[token |-> "", clientId |-> c, privateKeyPath |-> ""] :
                 c \in {"", "Iv1.client"}}
      [] which = "jwt" ->
             {[token |-> "", clientId |-> c, privateKeyPath |-> k] :
                 c \in {"", "Iv1.client"}, k \in {"", "key.pem"}}

IssueInit ==
    /\ creator \in {"token", "device", "jwt"}
    /\ env \in Environments(creator)
    /\ keychain = EmptyKeychain
    /\ expired = FALSE
    /\ run = Ended("")
    /\ trace = <<>>
    /\ commands = <<>>
    /\ fs = [p \in {Root} |-> "none"]
    /\ sizes = [p \in {Root} |-> 0]
    /\ gitignore = [p \in {Root} |-> NoFile]
    /\ options = [maxLeaf |-> 0, ignorePatterns |-> <<>>]
    /\ heap = << <<>> >>
    /\ calls = <<>>
    /\ result = Pending
    /\ scanned = {}
    /\ summary = NoSummary
    /\ touched = {}

IssueNext ==
    \/ Create
    \/ Logout
    \/ ResetClientId
    \/ ResetCredentials
    \/ TokenExpires
    \/ GetValidToken
    \/ GetClientId
    \/ GetPrivateKeyPath
    \/ InitiateDeviceAuth
    \/ PollForToken
    \/ StoreToken
    \/ GetInstallationToken
    \/ ValidateRepo
    \/ TestRepositoryAccess
    \/ PostIssue
    \/ ListRepositories
    \/ ListPublicRepositories
    \/ ListAllRepositoriesWithAccessMethod

IssueSpec == IssueInit /\ [][IssueNext]_vars

-----------------------------------------------------------------------------
(* The claims about the issue creators. *)

\* the last command was create, createIssue was called and the process
\* has ended
CreateIssueEnded ==
    /\ run.pc = "done" /\ run.error \notin {TokenRequired, Usage}
    /\ commands # <<>> /\ commands[Len(commands)] = "create"

\* the repo string has no owner part or no repository part: it does not
\* begin with a character other than "/", followed by a "/" and another
\* character other than "/"
LacksOwnerOrRepo(repo) ==
    ~\E n \in 2..(Len(repo) - 1) :
        /\ \A m \in 1..(n - 1) : repo[m] # "/"
        /\ repo[n] = "/"
        /\ repo[n + 1] # "/"

Events == Range(trace)

\* the events that are requests
Requests ==
    {DeviceCodeRequest, AccessTokenRequest, InstallationsRequest,
     RepositoriesRequest, InstallationTokenRequest, RepositoryRequest,
     IssuesRequest}

\* C22 as stated: createIssue with a repo string that lacks an owner or a
\* repository part fails with the repo format error, and no request, no
\* authorization and no keychain write comes before.
RepoErrorBeforeAnythingElse ==
    (CreateIssueEnded /\ LacksOwnerOrRepo(run.repo)) =>
        /\ run.error = RepoFormatError
        /\ trace = <<>>

\* C22: createIssue with such a repo string fails with the repo format
\* error and nothing before it in GitHubIssueCreator, and in the two other
\* creators when a token is in the keychain; without a stored token these
\* two authorize first: the repo format error is thrown exactly when the
\* authorization has stored a token, after its requests, and the error of
\* the authorization otherwise; no request about the repository is sent.
RepoErrorAfterGetValidToken ==
    (CreateIssueEnded /\ LacksOwnerOrRepo(run.repo)) =>
        /\ Events \cap {RepositoryRequest, IssuesRequest} = {}
        /\ IF Authorize \notin Events
           THEN /\ run.error = RepoFormatError
                /\ trace = <<>>
                /\ creator = "token" \/ keychain["token"] # ""
           ELSE /\ creator \in {"device", "jwt"}
                /\ trace[1] = Authorize
                /\ run.error = RepoFormatError
                       <=> trace[Len(trace)] = SetPassword("token")
                /\ run.error = RepoFormatError => Events \cap Requests # {}

\* C22 witness: the device creator has thrown the repo format error after
\* it prompted for the client id, stored it, sent the device code request,
\* polled twice and stored the token
RepoErrorAfterAuthorization ==
    /\ CreateIssueEnded /\ creator = "device" /\ run.repo = <<"o", "/">>
    /\ run.error = RepoFormatError
    /\ trace = <<Authorize, PromptClientId, SetPassword("client-id"),
                 DeviceCodeRequest, AccessTokenRequest, AccessTokenRequest,
                 SetPassword("token")>>

\* a create has ended that came right after a reset command, the client id
\* not being in the environment
CreateAfterResetEnded ==
    /\ CreateIssueEnded /\ creator \in {"device", "jwt"}
    /\ Len(commands) >= 2 /\ commands[Len(commands) - 1] = "reset"
    /\ env.clientId = ""

\* C23 as stated: the create that follows reset-id or reset-credentials
\* prompts for the client id again.
PromptedAgainAfterReset ==
    CreateAfterResetEnded => PromptClientId \in Events

\* pollForToken is in its loop, has just returned, or has thrown
PollForTokenEnding ==
    \/ run.pc \in {"pollForToken", "storeToken"}
    \/ /\ run.pc = "done"
       /\ run.error \in {PollingFailed, AuthorizationExpired, AuthorizationDenied,
                         UnexpectedError}

\* C29: in pollForToken, after a response with a token the token is taken
\* and no request follows; after authorization_pending or slow_down the
\* loop goes on, having waited interval, respectively interval + 5,
\* seconds; after any other response the error is thrown and the request
\* was the last event of the process; every request of the loop but the
\* first follows such a wait.
PollsOnlyWhilePending ==
    (run.polls > 0 /\ PollForTokenEnding) =>
        /\ Len(SelectSeq(trace, LAMBDA e : e = AccessTokenRequest)) = run.polls
        /\ CASE run.response = "access_token" ->
                    /\ run.pc = "storeToken" /\ run.token # ""
                    /\ trace[Len(trace)] = AccessTokenRequest
             [] run.response = "authorization_pending" ->
                    run.pc = "pollForToken" /\ run.waited = run.interval
             [] run.response = "slow_down" ->
                    run.pc = "pollForToken" /\ run.waited = run.interval + SlowDownSeconds
             [] run.response = "not ok" ->
                    /\ run.pc = "done" /\ run.error = PollingFailed
                    /\ trace[Len(trace)] = AccessTokenRequest
             [] run.response = "expired_token" ->
                    /\ run.pc = "done" /\ run.error = AuthorizationExpired
                    /\ trace[Len(trace)] = AccessTokenRequest
             [] run.response = "access_denied" ->
                    /\ run.pc = "done" /\ run.error = AuthorizationDenied
                    /\ trace[Len(trace)] = AccessTokenRequest
             [] OTHER ->
                    /\ run.pc = "done" /\ run.error = UnexpectedError
                    /\ trace[Len(trace)] = AccessTokenRequest

\* C29 witness: as many polls as the model allows have been answered with
\* authorization_pending or slow_down, the last with slow_down, and the
\* loop is still going on
StillPollingAfterSlowDown ==
    /\ run.pc = "pollForToken" /\ run.polls = MaxPolls
    /\ run.response = "slow_down"
    /\ run.interval = 1 /\ run.waited = 1 + SlowDownSeconds

\* C30 as stated: when the JWT creator used the token of the keychain and
\* GitHub rejected it as expired, a new token is in the keychain once the
\* command has ended.
StaleTokenIsRefreshed ==
    (CreateIssueEnded /\ creator = "jwt" /\ Authorize \notin Events
        /\ RepositoryRequest \in Events) => ~expired

====
